---------------------------- MODULE Spec2Model ----------------------------
(***************************************************************************)
(* A model of the storage layer of table-stats-local (src/storage.py) and  *)
(* of the callers in src/main.py that drive it.                            *)
(*                                                                         *)
(* Python values are modelled as follows.                                  *)
(*   - a string is a sequence of one-character strings;                    *)
(*   - a scalar (None, str, int, or a missing dict key) is a record        *)
(*     [t, s, n]: t is the type tag, s the characters of a str, n the      *)
(*     value of an int;                                                    *)
(*   - a row dict is a function from RowKeys to scalars, a missing key     *)
(*     being the scalar Absent;                                            *)
(*   - an entry of a rows list is [isdict, f]: f is the row when the entry *)
(*     is a dict;                                                          *)
(*   - a Decimal is [k, sign, coef, exp] with k one of fin, inf, nan,      *)
(*     snan; a date is [y, m, d].                                          *)
(* A function that can raise returns a record with an err field that names *)
(* the exception ("" when it returns normally).                            *)
(***************************************************************************)
EXTENDS Integers, Sequences, FiniteSets, TLC

VARIABLES
    clock,      \* the clock: [date, secs], read by today_iso() and now_iso()
    nextId,     \* the uuid generator: how many ids _new_id has handed out
    cfg,        \* the config dict
    tbl,        \* the table at hand (a document as loaded, or current_table)
    prev,       \* the table the operation applied last was given
    row,        \* the row at hand
    arg,        \* the other arguments of the operation applied last
    ret,        \* what the operation applied last returned (or raised)
    op,         \* the operation applied last
    hist,       \* the operations applied so far, in order
    fs,         \* the file system: path -> text of the file
    dirs,       \* the directories that exist
    pc,         \* where the running save is inside _write_json_atomic
    wr,         \* the running save: destination, temporary file, text
    loaded,     \* what the last load returned
    lost,       \* the save the last crash interrupted
    stored,     \* the config document on disk that load_config is given
    csv,        \* the bytes export_csv_bytes returned
    app,        \* the app object: screen, _dirty, _autosave_ev, the Clock's events
    seen        \* what has been observed of the app's run so far

vars == <<clock, nextId, cfg, tbl, prev, row, arg, ret, op, hist, fs, dirs, pc, wr, loaded, lost, stored, csv, app, seen>>

-----------------------------------------------------------------------------
(* Strings and scalars                                                     *)

\* F(e), with e evaluated once: every operator below is given values
Bind(e, F(_)) == CHOOSE res \in {F(x) : x \in {e}} : TRUE

None == [t |-> "none", s |-> <<>>, n |-> 0]

Absent == [t |-> "absent", s |-> <<>>, n |-> 0]

Str(cs) == [t |-> "str", s |-> cs, n |-> 0]

IntV(k) == [t |-> "int", s |-> <<>>, n |-> k]

EmptyStr == Str(<<>>)

DigitChars == <<"0", "1", "2", "3", "4", "5", "6", "7", "8", "9">>

IsDigit(c) == \E i \in 1..10 : DigitChars[i] = c

DigitVal(c) == (CHOOSE i \in 1..10 : DigitChars[i] = c) - 1

RECURSIVE NatChars(_)
NatChars(k) == IF k < 10 THEN <<DigitChars[k + 1]>>
               ELSE NatChars(k \div 10) \o <<DigitChars[(k % 10) + 1]>>

\* str(int)
IntChars(k) == IF k < 0 THEN <<"-">> \o NatChars(0 - k) ELSE NatChars(k)

RECURSIVE DigitsVal(_)
DigitsVal(cs) == IF cs = <<>> THEN 0
                 ELSE 10 * DigitsVal(SubSeq(cs, 1, Len(cs) - 1)) + DigitVal(cs[Len(cs)])

AllDigits(cs) == \A i \in 1..Len(cs) : IsDigit(cs[i])

IsSpace(c) == c = " "

RECURSIVE LStrip(_)
LStrip(cs) == IF cs # <<>> /\ IsSpace(Head(cs)) THEN LStrip(Tail(cs)) ELSE cs

RECURSIVE RStrip(_)
RStrip(cs) == IF cs # <<>> /\ IsSpace(cs[Len(cs)])
              THEN RStrip(SubSeq(cs, 1, Len(cs) - 1)) ELSE cs

\* str.strip()
Strip(cs) == RStrip(LStrip(cs))

\* Python truthiness: `v or default`
Truthy(v) == CASE v.t = "str" -> v.s # <<>>
               [] v.t = "int" -> v.n # 0
               [] OTHER -> FALSE

Or(v, d) == IF Truthy(v) THEN v ELSE d

\* str(v)
PyStr(v) == CASE v.t = "str" -> v.s
              [] v.t = "int" -> IntChars(v.n)
              [] OTHER -> <<"N", "o", "n", "e">>

\* dict.get(key) on a dict whose missing keys are Absent
Get(v) == IF v.t = "absent" THEN None ELSE v

\* str(v or "").strip()
StrOrEmptyStripped(v) == Strip(PyStr(Or(Get(v), EmptyStr)))

-----------------------------------------------------------------------------
(* Dates: datetime.date, parse_iso_date, isoformat, date + timedelta       *)

IsLeap(y) == y % 4 = 0 /\ (y % 100 # 0 \/ y % 400 = 0)

DaysInMonth(y, m) == IF m = 2 THEN (IF IsLeap(y) THEN 29 ELSE 28)
                     ELSE IF m \in {4, 6, 9, 11} THEN 30 ELSE 31

RECURSIVE DaysBeforeMonth(_, _)
DaysBeforeMonth(y, m) == IF m = 1 THEN 0
                         ELSE DaysBeforeMonth(y, m - 1) + DaysInMonth(y, m - 1)

DaysBeforeYear(y) == (y - 1) * 365 + ((y - 1) \div 4) - ((y - 1) \div 100)
                     + ((y - 1) \div 400)

\* date.toordinal()
Ymd2Ord(dt) == DaysBeforeYear(dt.y) + DaysBeforeMonth(dt.y, dt.m) + dt.d

\* the place of day n0 (0-based) in the 400, 100, 4 and 1 year cycles
Cycles(n0) ==
    [n400 |-> n0 \div 146097,
     n100 |-> (n0 % 146097) \div 36524,
     n4   |-> ((n0 % 146097) % 36524) \div 1461,
     n1   |-> (((n0 % 146097) % 36524) % 1461) \div 365,
     n    |-> (((n0 % 146097) % 36524) % 1461) % 365]

\* the month and day of day n (0-based) of a year, leap or not
MonthDay(year, n, leap) ==
    Bind((n + 50) \div 32, LAMBDA m0 :
    Bind(IF DaysBeforeMonth(IF leap THEN 2024 ELSE 2023, m0) > n THEN m0 - 1 ELSE m0,
         LAMBDA mon :
            [y |-> year, m |-> mon,
             d |-> n - DaysBeforeMonth(IF leap THEN 2024 ELSE 2023, mon) + 1]))

\* date.fromordinal(), as CPython computes it
Ord2Ymd(o) ==
    Bind(Cycles(o - 1), LAMBDA q :
    Bind(q.n400 * 400 + 1 + q.n100 * 100 + q.n4 * 4 + q.n1, LAMBDA year :
        IF q.n1 = 4 \/ q.n100 = 4
        THEN [y |-> year - 1, m |-> 12, d |-> 31]
        ELSE MonthDay(year, q.n, q.n1 = 3 /\ (q.n4 # 24 \/ q.n100 = 3))))

NoDate == [y |-> 0, m |-> 0, d |-> 0]

\* date + timedelta(days=i): OverflowError outside date.min .. date.max
DateAdd(dt, i) ==
    Bind(Ymd2Ord(dt) + i, LAMBDA o :
        IF o >= 1 /\ o <= 3652059
        THEN [err |-> "", date |-> Ord2Ymd(o)]
        ELSE [err |-> "OverflowError", date |-> NoDate])

Pad(cs, w) == [i \in 1..(w - Len(cs)) |-> "0"] \o cs

\* date.isoformat(): "%04d-%02d-%02d"
isoformat(dt) == Pad(NatChars(dt.y), 4) \o <<"-">> \o Pad(NatChars(dt.m), 2)
                 \o <<"-">> \o Pad(NatChars(dt.d), 2)

\* the date of the fields y, m, d, when there is such a date
DateOfFields(y, m, d) ==
    IF y >= 1 /\ m \in 1..12 /\ d >= 1 /\ d <= DaysInMonth(y, m)
    THEN [ok |-> TRUE, date |-> [y |-> y, m |-> m, d |-> d]]
    ELSE [ok |-> FALSE, date |-> NoDate]

\* date.fromisoformat() on the extended format YYYY-MM-DD
fromisoformat(cs) ==
    IF /\ Len(cs) = 10
       /\ cs[5] = "-" /\ cs[8] = "-"
       /\ AllDigits(SubSeq(cs, 1, 4)) /\ AllDigits(SubSeq(cs, 6, 7))
       /\ AllDigits(SubSeq(cs, 9, 10))
    THEN Bind(<<DigitsVal(SubSeq(cs, 1, 4)), DigitsVal(SubSeq(cs, 6, 7)),
                DigitsVal(SubSeq(cs, 9, 10))>>,
              LAMBDA f : DateOfFields(f[1], f[2], f[3]))
    ELSE [ok |-> FALSE, date |-> NoDate]

\* parse_iso_date(s): the date, or None (ok = FALSE)
parse_iso_date(v) ==
    IF v.t # "str" THEN [ok |-> FALSE, date |-> NoDate]
    ELSE Bind(Strip(v.s), LAMBDA s :
            IF s = <<>> THEN [ok |-> FALSE, date |-> NoDate] ELSE fromisoformat(s))

\* today_iso()
today_iso(clk) == isoformat(clk.date)

\* now_iso(): the date, "T", and the time of day
now_iso(clk) == isoformat(clk.date) \o <<"T">> \o NatChars(clk.secs)

\* _new_id(prefix): the prefix and the next token of the uuid generator
new_id(prefix, idc) == Str(<<prefix>> \o NatChars(idc))

-----------------------------------------------------------------------------
(* Decimals: decimal.Decimal, to_decimal, fmt_decimal, compute_amount      *)

Dec(k, sign, coef, exp) == [k |-> k, sign |-> sign, coef |-> coef, exp |-> exp]

\* to_decimal's None
NoDec == Dec("none", 0, 0, 0)

\* an exception of the decimal module, in the place of a Decimal
DecRaise == Dec("raise", 0, 0, 0)

UpperChars == <<"A", "E", "F", "I", "N", "S", "T", "Y">>

LowerChars == <<"a", "e", "f", "i", "n", "s", "t", "y">>

Lower(c) == IF \E i \in 1..Len(UpperChars) : UpperChars[i] = c
            THEN LowerChars[CHOOSE i \in 1..Len(UpperChars) : UpperChars[i] = c]
            ELSE c

LowerAll(cs) == [i \in 1..Len(cs) |-> Lower(cs[i])]

RECURSIVE Without(_, _)
Without(cs, c) == IF cs = <<>> THEN <<>>
                  ELSE IF Head(cs) = c THEN Without(Tail(cs), c)
                  ELSE <<Head(cs)>> \o Without(Tail(cs), c)

\* the first index of c in cs, 0 when there is none
IndexOf(cs, c) == IF \E i \in 1..Len(cs) : cs[i] = c
                  THEN CHOOSE i \in 1..Len(cs) : cs[i] = c /\ \A j \in 1..(i - 1) : cs[j] # c
                  ELSE 0

\* cs split at its first c: [found, head, tail]
SplitAt(cs, c) ==
    Bind(IndexOf(cs, c), LAMBDA i :
        IF i = 0 THEN [found |-> FALSE, head |-> cs, tail |-> <<>>]
        ELSE [found |-> TRUE, head |-> SubSeq(cs, 1, i - 1),
              tail |-> SubSeq(cs, i + 1, Len(cs))])

HasSign(cs) == cs # <<>> /\ Head(cs) \in {"-", "+"}

SignOf(cs) == IF cs # <<>> /\ Head(cs) = "-" THEN 1 ELSE 0

Unsigned(cs) == IF HasSign(cs) THEN Tail(cs) ELSE cs

\* the exponent part of a numeric string: absent, or [-+]? digits
ExponentOk(em) == ~em.found \/ (Unsigned(em.tail) # <<>> /\ AllDigits(Unsigned(em.tail)))

ExponentVal(em) == IF ~em.found THEN 0
                   ELSE IF SignOf(em.tail) = 1 THEN 0 - DigitsVal(Unsigned(em.tail))
                   ELSE DigitsVal(Unsigned(em.tail))

\* digits? (. digits?)? (E [-+]? digits)? with at least one digit before the E
NumberOfBody(sign, body) ==
    Bind(SplitAt(body, "e"), LAMBDA em :
    Bind(SplitAt(em.head, "."), LAMBDA m :
        IF /\ AllDigits(m.head) /\ AllDigits(m.tail)
           /\ Len(m.head) + Len(m.tail) >= 1
           /\ ExponentOk(em)
        THEN Dec("fin", sign, DigitsVal(m.head \o m.tail), ExponentVal(em) - Len(m.tail))
        ELSE Dec("none", 0, 0, 0)))

\* Inf(inity)? | s?NaN digits? | a number
DecimalOfBody(sign, body) ==
    IF body = <<"i", "n", "f">> \/ body = <<"i", "n", "f", "i", "n", "i", "t", "y">>
    THEN Dec("inf", sign, 0, 0)
    ELSE IF Len(body) >= 3 /\ SubSeq(body, 1, 3) = <<"n", "a", "n">>
            /\ AllDigits(SubSeq(body, 4, Len(body)))
    THEN Dec("nan", sign, 0, 0)
    ELSE IF Len(body) >= 4 /\ SubSeq(body, 1, 4) = <<"s", "n", "a", "n">>
            /\ AllDigits(SubSeq(body, 5, Len(body)))
    THEN Dec("snan", sign, 0, 0)
    ELSE NumberOfBody(sign, body)

\* Decimal(str): the constructor's grammar, case-insensitive, on the text
\* stripped and with its underscores removed; InvalidOperation (here the
\* Decimal "none", which to_decimal returns as None) when it does not match
DecimalOfChars(text) ==
    Bind(LowerAll(Without(Strip(text), "_")), LAMBDA cs :
    Bind(Unsigned(cs), LAMBDA body : DecimalOfBody(SignOf(cs), body)))

\* to_decimal(v)
to_decimal(v) ==
    IF v.t = "none" THEN NoDec
    ELSE IF v.t = "int" THEN Bind(PyStr(v), LAMBDA s : DecimalOfChars(s))
    ELSE IF v.t # "str" THEN NoDec
    ELSE Bind(Strip(v.s), LAMBDA s : IF s = <<>> THEN NoDec ELSE DecimalOfChars(s))

Xor(a, b) == IF a = b THEN 0 ELSE 1

\* Decimal.__mul__ under the default context (InvalidOperation is trapped)
DecMul(a, b) ==
    IF a.k = "snan" \/ b.k = "snan" THEN DecRaise
    ELSE IF a.k = "nan" THEN a
    ELSE IF b.k = "nan" THEN b
    ELSE IF a.k = "inf"
    THEN IF b.k = "fin" /\ b.coef = 0 THEN DecRaise ELSE Dec("inf", Xor(a.sign, b.sign), 0, 0)
    ELSE IF b.k = "inf"
    THEN IF a.coef = 0 THEN DecRaise ELSE Dec("inf", Xor(a.sign, b.sign), 0, 0)
    ELSE Dec("fin", Xor(a.sign, b.sign), a.coef * b.coef, a.exp + b.exp)

RECURSIVE Pow10(_)
Pow10(k) == IF k <= 0 THEN 1 ELSE 10 * Pow10(k - 1)

\* the signed coefficient of d at the exponent e <= d.exp
Scaled(d, e) == (IF d.sign = 1 THEN 0 - d.coef ELSE d.coef) * Pow10(d.exp - e)

Min(a, b) == IF a < b THEN a ELSE b

\* Decimal.__add__ under the default context
DecAdd(a, b) ==
    IF a.k = "snan" \/ b.k = "snan" THEN DecRaise
    ELSE IF a.k = "nan" THEN a
    ELSE IF b.k = "nan" THEN b
    ELSE IF a.k = "inf"
    THEN IF b.k = "inf" /\ a.sign # b.sign THEN DecRaise ELSE a
    ELSE IF b.k = "inf" THEN b
    ELSE Bind(Min(a.exp, b.exp), LAMBDA e :
         Bind(Scaled(a, e) + Scaled(b, e), LAMBDA v :
            IF v < 0 THEN Dec("fin", 1, 0 - v, e)
            ELSE IF v = 0 THEN Dec("fin", IF a.sign = 1 /\ b.sign = 1 THEN 1 ELSE 0, 0, e)
            ELSE Dec("fin", 0, v, e)))

\* Decimal.normalize(): trailing zeros of the coefficient go to the exponent
RECURSIVE DecNormalize(_)
DecNormalize(d) ==
    IF d.k # "fin" THEN d
    ELSE IF d.coef = 0 THEN Dec("fin", d.sign, 0, 0)
    ELSE IF d.coef % 10 = 0
    THEN Bind(Dec("fin", d.sign, d.coef \div 10, d.exp + 1), LAMBDA d1 : DecNormalize(d1))
    ELSE d

Zeros(k) == [i \in 1..k |-> "0"]

\* the digits ds with the decimal point `places` digits from the right
PointAt(ds, places) ==
    IF Len(ds) > places
    THEN SubSeq(ds, 1, Len(ds) - places) \o <<".">>
         \o SubSeq(ds, Len(ds) - places + 1, Len(ds))
    ELSE <<"0", ".">> \o Zeros(places - Len(ds)) \o ds

\* format(d, "f")
FormatF(d) ==
    (IF d.sign = 1 THEN <<"-">> ELSE <<>>) \o
    (IF d.k = "inf" THEN <<"I", "n", "f", "i", "n", "i", "t", "y">>
     ELSE IF d.k = "nan" THEN <<"N", "a", "N">>
     ELSE IF d.exp >= 0 THEN NatChars(d.coef) \o Zeros(d.exp)
     ELSE Bind(NatChars(d.coef), LAMBDA ds : PointAt(ds, 0 - d.exp)))

RECURSIVE RStripChar(_, _)
RStripChar(cs, c) == IF cs # <<>> /\ cs[Len(cs)] = c
                     THEN RStripChar(SubSeq(cs, 1, Len(cs) - 1), c) ELSE cs

\* fmt_decimal(d)
fmt_decimal(d) ==
    Bind(DecNormalize(d), LAMBDA nd :
    Bind(FormatF(nd), LAMBDA s :
        IF IndexOf(s, ".") # 0
        THEN Bind(RStripChar(s, "0"), LAMBDA s1 : RStripChar(s1, "."))
        ELSE s))

\* the product of the two parsed operands as compute_amount returns it
AmountOf(freight, settle) ==
    IF freight.k = "none" \/ settle.k = "none" THEN [err |-> "", v |-> EmptyStr]
    ELSE Bind(DecMul(freight, settle), LAMBDA p :
            IF p.k = "raise" THEN [err |-> "InvalidOperation", v |-> None]
            ELSE [err |-> "", v |-> Str(fmt_decimal(p))])

\* compute_amount(row): [err, v], v the returned str
compute_amount(r) ==
    Bind(to_decimal(Get(r["freight"])), LAMBDA freight :
    Bind(to_decimal(Get(r["settleTons"])), LAMBDA settle :
        AmountOf(freight, settle)))

-----------------------------------------------------------------------------
(* Rows and tables                                                         *)

RowKeys == {"id", "loadDate", "loadPlace", "vehicle", "model", "loadNetWeight",
            "unloadDate", "unloadPlace", "unloadTons", "freight", "settleTons",
            "amount"}

\* the dict {}
EmptyRow == [k \in RowKeys |-> Absent]

\* an entry of a rows list that is a dict
DictItem(r) == [isdict |-> TRUE, f |-> r]

\* an entry of a rows list that is not a dict (null, a number, a string)
NonDict == [isdict |-> FALSE, f |-> EmptyRow]

List(items) == [islist |-> TRUE, items |-> items]

NoList == [islist |-> FALSE, items |-> <<>>]

\* the dict {} as a table's meta
EmptyMeta == [isdict |-> TRUE, startDate |-> Absent, initialRows |-> Absent]

NoMeta == [isdict |-> FALSE, startDate |-> Absent, initialRows |-> Absent]

\* str(cfg.get(key) or "")
CfgStr(v) == Str(PyStr(Or(v, EmptyStr)))

\* ensure_row_defaults(cfg, row)
ensure_row_defaults(c, r) ==
    [r EXCEPT !["vehicle"] = IF StrOrEmptyStripped(r["vehicle"]) = <<>>
                             THEN CfgStr(c.defaultVehicle) ELSE @,
              !["model"] = IF StrOrEmptyStripped(r["model"]) = <<>>
                           THEN CfgStr(c.defaultModel) ELSE @]

\* r.setdefault("id", _new_id("row"))
SetDefaultId(r, idc) == IF r["id"].t = "absent"
                        THEN [r EXCEPT !["id"] = new_id("row_", idc)] ELSE r

\* the body of normalize_table's loop for the dict rr that enumerate() gives
\* the index idx: [err, r]
NormalizeRow(c, rr, start_d, idx, idc) ==
    Bind(DateAdd(start_d, idx), LAMBDA dt :
        IF dt.err # "" THEN [err |-> dt.err, r |-> rr]
        ELSE Bind([ensure_row_defaults(c, SetDefaultId(rr, idc))
                      EXCEPT !["loadDate"] = Str(isoformat(dt.date))], LAMBDA r3 :
             Bind(compute_amount(r3), LAMBDA am :
                [err |-> am.err, r |-> [r3 EXCEPT !["amount"] = am.v]])))

\* the loop of normalize_table over rows_in, from entry i (1-based) on; the
\* index enumerate() gives entry i is i - 1, its place in rows_in:
\* [err, rows, nextId]
RECURSIVE NormalizeRows(_, _, _, _, _)
NormalizeRows(c, items, i, start_d, idc) ==
    IF i > Len(items) THEN [err |-> "", rows |-> <<>>, nextId |-> idc]
    ELSE IF ~items[i].isdict THEN NormalizeRows(c, items, i + 1, start_d, idc)
    ELSE Bind(NormalizeRow(c, items[i].f, start_d, i - 1, idc), LAMBDA nr :
            IF nr.err # "" THEN [err |-> nr.err, rows |-> <<>>, nextId |-> idc + 1]
            ELSE Bind(NormalizeRows(c, items, i + 1, start_d, idc + 1), LAMBDA rest :
                    IF rest.err # "" THEN rest
                    ELSE [rest EXCEPT !.rows = <<DictItem(nr.r)>> \o @]))

\* the start date normalize_table resolves: meta.startDate, else startDate,
\* else today; today when it does not parse
ResolveStart(meta, table, clk) ==
    Bind(StrOrEmptyStripped(meta.startDate), LAMBDA s1 :
    Bind(IF s1 # <<>> THEN s1 ELSE StrOrEmptyStripped(table.startDate), LAMBDA s2 :
    Bind(parse_iso_date(Str(IF s2 # <<>> THEN s2 ELSE today_iso(clk))), LAMBDA parsed :
        IF parsed.ok THEN parsed.date ELSE clk.date)))

\* normalize_table(cfg, table): [err, t, nextId]
normalize_table(c, table, clk, idc) ==
    Bind(IF table.meta.isdict THEN table.meta ELSE EmptyMeta, LAMBDA meta :
    Bind(ResolveStart(meta, table, clk), LAMBDA start_d :
    Bind(NormalizeRows(c, IF table.rows.islist THEN table.rows.items ELSE <<>>,
                       1, start_d, idc), LAMBDA out :
        IF out.err # "" THEN [err |-> out.err, t |-> table, nextId |-> out.nextId]
        ELSE [err |-> "",
              t |-> [table EXCEPT !.rows = List(out.rows),
                                  !.startDate = Str(isoformat(start_d)),
                                  !.meta = [meta EXCEPT !.startDate = Str(isoformat(start_d))]],
              nextId |-> out.nextId])))

Max(a, b) == IF a > b THEN a ELSE b

\* the row ensure_rows_from_start_date builds for the date d
FreshRow(c, d, idc) ==
    Bind([k \in RowKeys |->
            CASE k = "id" -> new_id("row_", idc)
              [] k = "loadDate" -> Str(isoformat(d))
              [] k = "vehicle" -> CfgStr(c.defaultVehicle)
              [] k = "model" -> CfgStr(c.defaultModel)
              [] OTHER -> EmptyStr],
         LAMBDA r : ensure_row_defaults(c, r))

\* RowCount without the floor of one row
RowCountUnclamped(row_count) == row_count

\* how many rows ensure_rows_from_start_date builds
RowCount(row_count) == Max(1, row_count)

\* the loop of ensure_rows_from_start_date, from row i (0-based) on
RECURSIVE FreshRows(_, _, _, _, _)
FreshRows(c, start_d, i, n, idc) ==
    IF i >= n THEN [err |-> "", rows |-> <<>>, nextId |-> idc]
    ELSE Bind(DateAdd(start_d, i), LAMBDA dt :
            IF dt.err # "" THEN [err |-> dt.err, rows |-> <<>>, nextId |-> idc]
            ELSE Bind(FreshRows(c, start_d, i + 1, n, idc + 1), LAMBDA rest :
                    IF rest.err # "" THEN rest
                    ELSE [rest EXCEPT !.rows = <<DictItem(FreshRow(c, dt.date, idc))>> \o @]))

\* ensure_rows_from_start_date(cfg, start_date_iso, row_count)
ensure_rows_from_start_date(c, start_date_iso, row_count, clk, idc) ==
    Bind(parse_iso_date(Str(start_date_iso)), LAMBDA parsed :
    Bind(IF parsed.ok THEN parsed.date ELSE clk.date, LAMBDA start_d :
        FreshRows(c, start_d, 0, RowCount(row_count), idc)))

NoTable == [id |-> Absent, name |-> Absent, startDate |-> Absent, rows |-> NoList,
            createdAt |-> Absent, updatedAt |-> Absent, meta |-> NoMeta]

\* the table create_table builds before it normalizes it
NewTable(start_date_iso, initial_rows, rows, clk, idc) ==
    [id |-> new_id("tbl_", idc),
     name |-> Str(start_date_iso \o <<"-">>),
     startDate |-> Str(start_date_iso),
     rows |-> List(rows),
     createdAt |-> Str(now_iso(clk)),
     updatedAt |-> Str(now_iso(clk)),
     meta |-> [isdict |-> TRUE, startDate |-> Str(start_date_iso),
               initialRows |-> IntV(initial_rows)]]

\* create_table(cfg, start_date_iso, initial_rows): [err, t, nextId]
create_table(c, start_date, initial_rows, clk, idc) ==
    Bind(StrOrEmptyStripped(start_date), LAMBDA s0 :
    Bind(IF s0 # <<>> THEN s0 ELSE today_iso(clk), LAMBDA start_date_iso :
    Bind(ensure_rows_from_start_date(c, start_date_iso, initial_rows, clk, idc),
         LAMBDA rows :
        IF rows.err # "" THEN [err |-> rows.err, t |-> NoTable, nextId |-> rows.nextId]
        ELSE Bind(NewTable(start_date_iso, initial_rows, rows.rows, clk, rows.nextId),
                  LAMBDA t : normalize_table(c, t, clk, rows.nextId + 1)))))

\* the loop of summarize_table over the rows, from entry i on: the total, or
\* DecRaise when an addition raises
RECURSIVE SumAmounts(_, _, _)
SumAmounts(items, i, total) ==
    IF i > Len(items) \/ total.k = "raise" THEN total
    ELSE IF ~items[i].isdict THEN SumAmounts(items, i + 1, total)
    ELSE Bind(to_decimal(Get(items[i].f["amount"])), LAMBDA a :
            IF a.k = "none" THEN SumAmounts(items, i + 1, total)
            ELSE Bind(DecAdd(total, a), LAMBDA sum : SumAmounts(items, i + 1, sum)))

\* the name summarize_table gives the normalized table t
SummaryName(t, clk) ==
    Bind(StrOrEmptyStripped(t.startDate), LAMBDA s0 :
    Bind(IF s0 # <<>> THEN s0 ELSE today_iso(clk), LAMBDA start_iso :
    Bind(IF t.rows.items # <<>> /\ t.rows.items[Len(t.rows.items)].isdict
         THEN StrOrEmptyStripped(t.rows.items[Len(t.rows.items)].f["loadDate"])
         ELSE <<>>, LAMBDA end_iso :
        IF end_iso # <<>> THEN Str(start_iso \o <<"-">> \o end_iso)
        ELSE Str(start_iso \o <<"-">>))))

\* summarize_table(cfg, table): [err, t, total, nextId]
summarize_table(c, table, clk, idc) ==
    Bind(normalize_table(c, table, clk, idc), LAMBDA nt :
        IF nt.err # ""
        THEN [err |-> nt.err, t |-> table, total |-> NoDec, nextId |-> nt.nextId]
        ELSE Bind(SumAmounts(nt.t.rows.items, 1, Dec("fin", 0, 0, 0)), LAMBDA total :
                IF total.k = "raise"
                THEN [err |-> "InvalidOperation", t |-> table, total |-> NoDec,
                      nextId |-> nt.nextId]
                ELSE [err |-> "", t |-> [nt.t EXCEPT !.name = SummaryName(nt.t, clk)],
                      total |-> total, nextId |-> nt.nextId]))

-----------------------------------------------------------------------------
(* CSV export.  A text is a sequence of characters; "BOM" is U+FEFF and     *)
(* "{k}" stands for the localized label of column k.  Bytes are written as  *)
(* the character they encode, or as two hex digits.                         *)

\* the keys of FIXED_HEADERS, in order
FIXED_HEADERS ==
    <<"loadDate", "loadPlace", "vehicle", "model", "loadNetWeight", "unloadDate",
      "unloadPlace", "unloadTons", "freight", "settleTons", "amount">>

\* the label FIXED_HEADERS pairs with key k, one character for the whole text
HeaderLabel(k) == <<"{" \o k \o "}">>

\* what csv.writer writes of a field value: None as "", the others as str(v)
CsvText(v) == IF v.t \in {"none", "absent"} THEN <<>> ELSE PyStr(v)

\* csv.writer quotes a field that holds the delimiter, the quote character
\* or a character of the line terminator
NeedsQuote(cs) == \E i \in 1..Len(cs) : cs[i] \in {",", "\"", "\n"}

RECURSIVE DoubleQuotes(_)
DoubleQuotes(cs) ==
    IF cs = <<>> THEN <<>>
    ELSE (IF Head(cs) = "\"" THEN <<"\"", "\"">> ELSE <<Head(cs)>>)
         \o DoubleQuotes(Tail(cs))

\* the field as csv.writer writes it
CsvField(cs) == IF NeedsQuote(cs) THEN <<"\"">> \o DoubleQuotes(cs) \o <<"\"">>
                ELSE cs

RECURSIVE JoinFields(_)
JoinFields(fields) ==
    IF fields = <<>> THEN <<>>
    ELSE IF Len(fields) = 1 THEN CsvField(fields[1])
    ELSE CsvField(Head(fields)) \o <<",">> \o JoinFields(Tail(fields))

\* w.writerow(fields), with lineterminator="\n"
WriteRow(fields) == JoinFields(fields) \o <<"\n">>

\* [r.get(k, "") for k in keys]
RowCells(r) == [i \in 1..Len(FIXED_HEADERS) |-> CsvText(r[FIXED_HEADERS[i]])]

RECURSIVE WriteRows(_)
WriteRows(items) ==
    IF items = <<>> THEN <<>>
    ELSE (IF Head(items).isdict THEN WriteRow(RowCells(Head(items).f)) ELSE <<>>)
         \o WriteRows(Tail(items))

\* text.encode("utf-8")
RECURSIVE Utf8(_)
Utf8(cs) == IF cs = <<>> THEN <<>>
            ELSE (IF Head(cs) = "BOM" THEN <<"EF", "BB", "BF">> ELSE <<Head(cs)>>)
                 \o Utf8(Tail(cs))

\* export_csv_bytes(table)
export_csv_bytes(table) ==
    Utf8(<<"BOM">>
         \o WriteRow([i \in 1..Len(FIXED_HEADERS) |-> HeaderLabel(FIXED_HEADERS[i])])
         \o (IF table.rows.islist THEN WriteRows(table.rows.items) ELSE <<>>))

-----------------------------------------------------------------------------
(* The config and its recent list                                          *)

\* default_config(); the place names are cut to their last letter.  extra is
\* a key default_config does not know (missing from a default config)
default_config(clk) ==
    [recentTableIds |-> <<>>,
     recentLimit |-> IntV(12),
     autosaveMs |-> IntV(600),
     initialRows |-> IntV(31),
     defaultVehicle |-> Str(<<"J", "8", "7", "7", "2", "1">>),
     defaultModel |-> Str(<<"P", "A", "C">>),
     loadPlaces |-> <<Str(<<"A">>), Str(<<"B">>), Str(<<"C">>)>>,
     unloadPlaces |-> <<Str(<<"A">>), Str(<<"B">>), Str(<<"C">>)>>,
     updatedAt |-> Str(now_iso(clk)),
     extra |-> Absent]

\* a JSON value under a key whose default is a list: a list of items, or
\* something else v (Absent: the key is missing)
ListValue(items) == [islist |-> TRUE, items |-> items, v |-> None]

OtherValue(v) == [islist |-> FALSE, items |-> <<>>, v |-> v]

\* the JSON object a config is when written to disk
RawOf(c) ==
    [isdict |-> TRUE,
     recentTableIds |-> ListValue(c.recentTableIds),
     recentLimit |-> c.recentLimit,
     autosaveMs |-> c.autosaveMs,
     initialRows |-> c.initialRows,
     defaultVehicle |-> c.defaultVehicle,
     defaultModel |-> c.defaultModel,
     loadPlaces |-> ListValue(c.loadPlaces),
     unloadPlaces |-> ListValue(c.unloadPlaces),
     updatedAt |-> c.updatedAt,
     extra |-> c.extra]

\* cfg.setdefault(k, v), for the value cfg has under k
SetDefault(v, d) == IF v.t = "absent" THEN d ELSE v

\* load_config from the document raw that _read_json returned
load_config_doc(raw, clk) ==
    Bind(default_config(clk), LAMBDA base :
        IF ~raw.isdict THEN base
        ELSE [recentTableIds |-> IF raw.recentTableIds.islist
                                 THEN raw.recentTableIds.items ELSE <<>>,
              recentLimit |-> SetDefault(raw.recentLimit, base.recentLimit),
              autosaveMs |-> SetDefault(raw.autosaveMs, base.autosaveMs),
              initialRows |-> SetDefault(raw.initialRows, base.initialRows),
              defaultVehicle |-> SetDefault(raw.defaultVehicle, base.defaultVehicle),
              defaultModel |-> SetDefault(raw.defaultModel, base.defaultModel),
              loadPlaces |-> IF raw.loadPlaces.islist
                             THEN raw.loadPlaces.items ELSE base.loadPlaces,
              unloadPlaces |-> IF raw.unloadPlaces.islist
                               THEN raw.unloadPlaces.items ELSE base.unloadPlaces,
              updatedAt |-> SetDefault(raw.updatedAt, base.updatedAt),
              extra |-> raw.extra])

\* int(v): [err, n]
PyInt(v) ==
    IF v.t = "int" THEN [err |-> "", n |-> v.n]
    ELSE IF v.t = "str" /\ Strip(v.s) # <<>> /\ AllDigits(Strip(v.s))
    THEN [err |-> "", n |-> DigitsVal(Strip(v.s))]
    ELSE IF v.t = "str" THEN [err |-> "ValueError", n |-> 0]
    ELSE [err |-> "TypeError", n |-> 0]

\* [x for x in xs if x != v]
Others(xs, v) == SelectSeq(xs, LAMBDA x : x # v)

\* the list touch_recent builds before it cuts it: table_id, then the others
\* with every prepend and no removal
RecentsKeepingOld(recents, table_id) == <<table_id>> \o recents

\* the list touch_recent builds before it cuts it: table_id, then the others
RecentsWith(recents, table_id) == <<table_id>> \o Others(recents, table_id)

\* xs[:k]
Take(xs, k) == SubSeq(xs, 1, Min(Len(xs), Max(0, k)))

\* touch_recent(cfg, table_id): [err, c]
touch_recent(c, table_id) ==
    Bind(PyInt(Or(Get(c.recentLimit), IntV(12))), LAMBDA limit :
        IF limit.err # "" THEN [err |-> limit.err, c |-> c]
        ELSE [err |-> "",
              c |-> [c EXCEPT !.recentTableIds =
                        Take(RecentsWith(c.recentTableIds, table_id), Max(1, limit.n))]])

-----------------------------------------------------------------------------
(* Files.  A path is [dir, name]; a JSON document is [kind, t, c] (a table  *)
(* or a config); a file's text is [doc, len]: the first len pieces of the   *)
(* text json.dumps makes of doc, which is "{", one piece for each row (or   *)
(* each recent id), and "}".  A directory listing is a function from paths  *)
(* to texts.                                                                *)

NoPath == [dir |-> "", name |-> <<>>]

\* base_dir / "config.json"
ConfigPath == [dir |-> "base", name |-> <<"c", "o", "n", "f", "i", "g", ".json">>]

\* tables_dir / f"{table_id}.json"
TablePath(id_chars) == [dir |-> "tables", name |-> id_chars \o <<".json">>]

\* path.with_suffix(path.suffix + ".tmp")
TmpPath(path) == [path EXCEPT !.name = @ \o <<".tmp">>]

\* a config with no key set
NoConfig == [recentTableIds |-> <<>>, recentLimit |-> Absent, autosaveMs |-> Absent,
             initialRows |-> Absent, defaultVehicle |-> Absent, defaultModel |-> Absent,
             loadPlaces |-> <<>>, unloadPlaces |-> <<>>,
             updatedAt |-> Absent, extra |-> Absent]

NoDoc == [kind |-> "none", t |-> NoTable, c |-> NoConfig]

TableDoc(t) == [NoDoc EXCEPT !.kind = "table", !.t = t]

ConfigDoc(c) == [NoDoc EXCEPT !.kind = "config", !.c = c]

EmptyText == [doc |-> NoDoc, len |-> 0]

\* the number of pieces of json.dumps(doc)
JsonLen(doc) == CASE doc.kind = "table" -> 2 + Len(doc.t.rows.items)
                  [] doc.kind = "config" -> 2 + Len(doc.c.recentTableIds)
                  [] OTHER -> 0

\* json.dumps(doc, ensure_ascii=False, indent=2)
json_dumps(doc) == [doc |-> doc, len |-> JsonLen(doc)]

\* the first k pieces of a text
Prefix(text, k) == IF k = 0 THEN EmptyText ELSE [text EXCEPT !.len = k]

\* json.loads(text): [err, doc]; a cut-off text is no JSON document
json_loads(text) == IF text.doc.kind # "none" /\ text.len = JsonLen(text.doc)
                    THEN [err |-> "", doc |-> text.doc]
                    ELSE [err |-> "JSONDecodeError", doc |-> NoDoc]

\* no save running
NoWrite == [path |-> NoPath, tmp |-> NoPath, text |-> EmptyText, old |-> EmptyText,
            existed |-> FALSE]

\* nothing loaded yet
NoLoad == [found |-> FALSE, doc |-> NoDoc]

Put(files, path, text) ==
    [q \in DOMAIN files \cup {path} |-> IF q = path THEN text ELSE files[q]]

Remove(files, path) == [q \in DOMAIN files \ {path} |-> files[q]]

\* _read_json(path, default): [found, doc]; found = FALSE stands for default
read_json(files, path) ==
    IF path \notin DOMAIN files THEN [found |-> FALSE, doc |-> NoDoc]
    ELSE Bind(json_loads(files[path]), LAMBDA r :
             IF r.err # "" THEN [found |-> FALSE, doc |-> NoDoc]
             ELSE [found |-> TRUE, doc |-> r.doc])

\* load_config(base_dir)
load_config(files, clk) ==
    Bind(read_json(files, ConfigPath), LAMBDA r :
        load_config_doc(IF r.found /\ r.doc.kind = "config" THEN RawOf(r.doc.c)
                        ELSE RawOf(default_config(clk)), clk))

\* load_table_by_id(tables_dir, table_id): [found, doc]
load_table_by_id(files, table_id) == read_json(files, TablePath(PyStr(table_id)))

\* str(table.get("id") or ""), the strip() forgotten
TableFileIdUnstripped(t) == PyStr(Or(Get(t.id), EmptyStr))

\* str(table.get("id") or "").strip()
TableFileId(t) == Strip(PyStr(Or(Get(t.id), EmptyStr)))

\* the write _write_json_atomic(path, data) is about to do
WriteOf(files, path, doc) ==
    [path |-> path, tmp |-> TmpPath(path), text |-> json_dumps(doc),
     old |-> IF path \in DOMAIN files THEN files[path] ELSE EmptyText,
     existed |-> path \in DOMAIN files]

\* the file write_text writes, were it the destination itself
WriteTargetInPlace(w) == w.path

\* the file write_text writes: tmp
WriteTarget(w) == w.tmp

\* save_table(tables_dir, table) up to its call of _write_json_atomic:
\* [err, table (the caller's dict afterwards), w]
save_table(files, t, clk) ==
    Bind(TableFileId(t), LAMBDA table_id :
        IF table_id = <<>>
        THEN [err |-> "ValueError", table |-> t, w |-> NoWrite]
        ELSE [err |-> "", table |-> t,
              w |-> WriteOf(files, TablePath(table_id),
                            TableDoc([t EXCEPT !.updatedAt = Str(now_iso(clk))]))])

\* save_config(base_dir, cfg) up to its call of _write_json_atomic
save_config(files, c, clk) ==
    WriteOf(files, ConfigPath, ConfigDoc([c EXCEPT !.updatedAt = Str(now_iso(clk))]))

\* delete_table(tables_dir, table_id)
delete_table(files, table_id) ==
    Bind(TablePath(PyStr(table_id)), LAMBDA p :
        IF p \in DOMAIN files THEN Remove(files, p) ELSE files)

-----------------------------------------------------------------------------
(* Bounds and inputs                                                       *)

\* the longest rows list of an input table, and the largest row count asked
\* of create_table
MaxRows == 2

\* the longest sequence of operations applied to one table
MaxCalls == 2

Chars2026_02_27 == <<"2", "0", "2", "6", "-", "0", "2", "-", "2", "7">>

Chars2024_02_28 == <<"2", "0", "2", "4", "-", "0", "2", "-", "2", "8">>

Chars2026_12_31 == <<"2", "0", "2", "6", "-", "1", "2", "-", "3", "1">>

\* the clock while a behaviour runs
Clock0 == [date |-> [y |-> 2026, m |-> 11, d |-> 30], secs |-> 0]

\* the config at the start of a behaviour
Config0 == default_config(Clock0)

\* a config whose default vehicle and model are blank
BlankDefaultsConfig == [Config0 EXCEPT !.defaultVehicle = EmptyStr,
                                       !.defaultModel = Str(<<" ">>)]

NoArg == [start_date |-> None, rows |-> 0, id |-> None, recents |-> <<>>]

NoRet == [err |-> "", v |-> None, total |-> NoDec]

\* the values a freight or settleTons cell is drawn from
AmountInputs == {Absent, None, EmptyStr, IntV(3),
                 Str(<<" ">>), Str(<<"a", "b", "c">>),
                 Str(<<"1", "0", "0">>), Str(<<"2", ".", "5">>),
                 Str(<<" ", "0", ".", "1", "0", " ">>), Str(<<"-", "4">>),
                 Str(<<"1", "e", "2">>), Str(<<"0">>),
                 Str(<<"N", "a", "N">>), Str(<<"I", "n", "f", "i", "n", "i", "t", "y">>)}

RowWith(freight, settle) == [EmptyRow EXCEPT !["freight"] = freight,
                                             !["settleTons"] = settle]

\* a row as an earlier version of a table may hold it: stale date and amount
StaleRow == [EmptyRow EXCEPT !["id"] = Str(<<"r", "7">>),
                             !["loadDate"] = Str(<<"1", "9", "9", "9">>),
                             !["vehicle"] = Str(<<"X">>),
                             !["freight"] = Str(<<"1", "0", "0">>),
                             !["settleTons"] = Str(<<"2", ".", "5">>),
                             !["amount"] = Str(<<"7">>)]

\* the entries a rows list of an input table is drawn from
ItemInputs == {NonDict,
               DictItem(EmptyRow),
               DictItem(StaleRow),
               DictItem(RowWith(Str(<<"a", "b", "c">>), Str(<<"2">>))),
               DictItem(RowWith(Str(<<"I", "n", "f", "i", "n", "i", "t", "y">>), Str(<<"1">>))),
               DictItem(RowWith(Str(<<"I", "n", "f", "i", "n", "i", "t", "y">>), Str(<<"-", "4">>)))}

SeqsUpTo(S, n) == UNION {[1..k -> S] : k \in 0..n}

RowsInputs == {NoList} \cup {List(items) : items \in SeqsUpTo(ItemInputs, MaxRows)}

StartDateInputs == {Absent, Str(Chars2026_02_27), Str(<<" ">> \o Chars2024_02_28),
                    Str(<<"b", "a", "d">>)}

MetaInputs == {NoMeta, EmptyMeta,
               [isdict |-> TRUE, startDate |-> Str(Chars2026_12_31), initialRows |-> IntV(2)]}

\* the table documents normalize_table and summarize_table are given
TableInputs == {[NoTable EXCEPT !.id = Str(<<"t", "1">>), !.startDate = sd,
                                !.rows = rows, !.meta = meta] :
                   sd \in StartDateInputs, rows \in RowsInputs, meta \in MetaInputs}

\* the start dates and row counts create_table is given
CreateDates == {Str(Chars2026_02_27), Str(Chars2024_02_28), Str(Chars2026_12_31)}

CreateRowCounts == (0 - 1)..MaxRows

\* the longest recent list of a stored config, and the largest recentLimit
MaxRecent == 3

TableIds == {Str(<<"t", "1">>), Str(<<"t", "2">>), Str(<<"t", "3">>)}

\* the recentLimit of a stored config: null, or an integer
RecentLimitInputs == {None} \cup {IntV(k) : k \in (0 - 1)..MaxRecent}

\* the recent list of a stored config (a stored list may repeat an id)
RecentInputs == SeqsUpTo(TableIds, MaxRecent)

\* the row entries of the tables exported: cells with a comma, a quote, a
\* line feed, a carriage return, a number, null, and missing keys
CsvItems ==
    {NonDict,
     DictItem(EmptyRow),
     DictItem(StaleRow),
     DictItem([EmptyRow EXCEPT !["loadDate"] = Str(<<"d">>),
                               !["vehicle"] = Str(<<"x", ",", "y">>),
                               !["model"] = Str(<<"q", "\"", "r">>),
                               !["unloadPlace"] = Str(<<"l", "\n", "m">>),
                               !["freight"] = IntV(5),
                               !["amount"] = None]),
     DictItem([EmptyRow EXCEPT !["loadPlace"] = Str(<<"a", "\r", "b">>)]),
     DictItem([EmptyRow EXCEPT !["amount"] = Str(<<"2", "5", "0">>)]),
     DictItem([EmptyRow EXCEPT !["loadPlace"] = Str(<<"\"">>)])}

\* the tables exported
CsvTables == {[NoTable EXCEPT !.rows = r] :
                 r \in {NoList} \cup {List(items) : items \in SeqsUpTo(CsvItems, MaxRows)}}

\* no config document at hand
NoStored == [RawOf(NoConfig) EXCEPT !.isdict = FALSE]

\* the config documents found on disk: a key may be missing, null or of the
\* wrong type, an unknown key may be there, the document may be no object
StoredInputs ==
    {NoStored} \cup
    {[RawOf(NoConfig) EXCEPT !.recentTableIds = r, !.recentLimit = l,
                             !.defaultVehicle = v, !.loadPlaces = lp, !.extra = x] :
        r \in {ListValue(<<>>), ListValue(<<Str(<<"t", "1">>)>>), OtherValue(Absent),
                OtherValue(None), OtherValue(Str(<<"t", "1">>))},
        l \in {Absent, None, IntV(5), Str(<<"a", "b", "c">>)},
        v \in {Absent, Str(<<"V">>), IntV(7)},
        lp \in {ListValue(<<Str(<<"X">>)>>), OtherValue(Absent), OtherValue(IntV(1))},
        x \in {Absent, Str(<<"x">>)}}

\* the app object before build, and nothing observed
NoApp == [screen |-> "none", dirty |-> FALSE, autosave_ev |-> 0, events |-> {},
          popup |-> "", tid |-> None]

NoSeen == [steps |-> 0, closed |-> {}, unsaved |-> 0, batch |-> 0, wrote |-> {},
           marks |-> 0]

\* how many operations a behaviour of the store applies
MaxOps == 4

\* the ids of the tables saved: plain, with blanks around, blank, empty and
\* missing
StoreIds == {Str(<<"a">>), Str(<<" ", "a", " ">>), Str(<<" ">>), EmptyStr, Absent}

\* the ids tables are looked up and deleted by
LookupIds == {Str(<<"a">>), Str(<<" ", "a", " ">>)}

\* the tables saved
StoreTables == {[NoTable EXCEPT !.id = i, !.rows = List(items)] :
                   i \in StoreIds, items \in SeqsUpTo({DictItem(EmptyRow)}, 1)}

\* the tables touched before the config is saved
StoreRecentIds == {Str(<<"t", "1">>), Str(<<"t", "2">>)}

-----------------------------------------------------------------------------
(* compute_amount on one row                                               *)

InitAmount ==
    /\ row \in {RowWith(f, s) : f \in AmountInputs, s \in AmountInputs}
    /\ clock = Clock0 /\ nextId = 0 /\ cfg = Config0
    /\ tbl = NoTable /\ prev = NoTable /\ arg = NoArg /\ ret = NoRet
    /\ op = "none" /\ hist = <<>>
    /\ fs = <<>> /\ dirs = {} /\ pc = "idle" /\ wr = NoWrite /\ loaded = NoLoad /\ lost = NoWrite
    /\ stored = NoStored /\ csv = <<>> /\ app = NoApp /\ seen = NoSeen

ComputeAmount ==
    /\ hist = <<>>
    /\ \E r \in {compute_amount(row)} : ret' = [NoRet EXCEPT !.err = r.err, !.v = r.v]
    /\ op' = "compute_amount"
    /\ hist' = <<"compute_amount">>
    /\ UNCHANGED <<clock, nextId, cfg, tbl, prev, row, arg, fs, dirs, pc, wr, loaded, lost, stored, csv, app, seen>>

NextAmount == ComputeAmount

SpecAmount == InitAmount /\ [][NextAmount]_vars

-----------------------------------------------------------------------------
(* normalize_table, create_table and summarize_table on one table          *)

\* a table document is at hand, or none is (a table is then created)
InitTable ==
    /\ tbl \in TableInputs \cup {NoTable}
    /\ cfg \in {Config0, BlankDefaultsConfig}
    /\ clock = Clock0 /\ nextId = 0
    /\ prev = NoTable /\ row = EmptyRow /\ arg = NoArg /\ ret = NoRet
    /\ op = "none" /\ hist = <<>>
    /\ fs = <<>> /\ dirs = {} /\ pc = "idle" /\ wr = NoWrite /\ loaded = NoLoad /\ lost = NoWrite
    /\ stored = NoStored /\ csv = <<>> /\ app = NoApp /\ seen = NoSeen

\* a caller applies normalize_table to the table at hand
NormalizeTable ==
    /\ tbl # NoTable
    /\ Len(hist) < MaxCalls /\ ret.err = ""
    /\ \E r \in {normalize_table(cfg, tbl, clock, nextId)} :
           /\ tbl' = r.t
           /\ nextId' = r.nextId
           /\ ret' = [NoRet EXCEPT !.err = r.err]
    /\ prev' = tbl
    /\ op' = "normalize_table"
    /\ hist' = Append(hist, "normalize_table")
    /\ UNCHANGED <<clock, cfg, row, arg, fs, dirs, pc, wr, loaded, lost, stored, csv, app, seen>>

\* a caller applies summarize_table to the table at hand
SummarizeTable ==
    /\ tbl # NoTable
    /\ Len(hist) < MaxCalls /\ ret.err = ""
    /\ \E r \in {summarize_table(cfg, tbl, clock, nextId)} :
           /\ tbl' = r.t
           /\ nextId' = r.nextId
           /\ ret' = [NoRet EXCEPT !.err = r.err, !.total = r.total]
    /\ prev' = tbl
    /\ op' = "summarize_table"
    /\ hist' = Append(hist, "summarize_table")
    /\ UNCHANGED <<clock, cfg, row, arg, fs, dirs, pc, wr, loaded, lost, stored, csv, app, seen>>

\* a caller builds a new table with create_table
CreateTable(d, n) ==
    /\ tbl = NoTable
    /\ hist = <<>>
    /\ \E r \in {create_table(cfg, d, n, clock, nextId)} :
           /\ tbl' = r.t
           /\ nextId' = r.nextId
           /\ ret' = [NoRet EXCEPT !.err = r.err]
    /\ prev' = NoTable
    /\ arg' = [NoArg EXCEPT !.start_date = d, !.rows = n]
    /\ op' = "create_table"
    /\ hist' = <<"create_table">>
    /\ UNCHANGED <<clock, cfg, row, fs, dirs, pc, wr, loaded, lost, stored, csv, app, seen>>

NextTable ==
    \/ NormalizeTable
    \/ SummarizeTable
    \/ \E d \in CreateDates, n \in CreateRowCounts : CreateTable(d, n)

SpecTable == InitTable /\ [][NextTable]_vars

-----------------------------------------------------------------------------
(* The calendar, told day by day: what "d + i days" means in the claims    *)

NextDay(dt) == IF dt.d < DaysInMonth(dt.y, dt.m) THEN [dt EXCEPT !.d = @ + 1]
               ELSE IF dt.m < 12 THEN [y |-> dt.y, m |-> dt.m + 1, d |-> 1]
               ELSE [y |-> dt.y + 1, m |-> 1, d |-> 1]

RECURSIVE DaysLater(_, _)
DaysLater(dt, i) == IF i = 0 THEN dt ELSE NextDay(DaysLater(dt, i - 1))

\* the row entry it is a dict whose loadDate reads as the date dt
LoadDateIs(it, dt) ==
    /\ it.isdict
    /\ parse_iso_date(Get(it.f["loadDate"])) = [ok |-> TRUE, date |-> dt]

\* every row i (0-based) of table t is dated i days after t.startDate
RowDatesFollowStart(t) ==
    /\ parse_iso_date(Get(t.startDate)).ok
    /\ \A i \in 1..Len(t.rows.items) :
          LoadDateIs(t.rows.items[i],
                     DaysLater(parse_iso_date(Get(t.startDate)).date, i - 1))

LastOp(k) == IF Len(hist) >= k THEN hist[Len(hist) + 1 - k] ELSE "none"

-----------------------------------------------------------------------------
(* Claims on normalize_table, create_table, compute_amount, summarize_table *)

\* C1: after normalize_table on any input table, row i of the returned rows
\* list has loadDate = the returned startDate + i days, for every i.
C1_RowDatesFollowStart ==
    (op = "normalize_table" /\ ret.err = "") => RowDatesFollowStart(tbl)

\* C2: normalize_table is idempotent on content: normalizing the table that
\* normalize_table returned gives the same rows, startDate and meta.
C2_NormalizeIdempotent ==
    (LastOp(1) = "normalize_table" /\ LastOp(2) = "normalize_table" /\ ret.err = "")
        => (tbl.rows = prev.rows /\ tbl.startDate = prev.startDate /\ tbl.meta = prev.meta)

BlankKeys == {"loadPlace", "loadNetWeight", "unloadDate", "unloadPlace", "unloadTons",
              "freight", "settleTons", "amount"}

IsNumber(v) == to_decimal(Get(v)).k = "fin"

\* the text s is a plain decimal numeral without trailing zeros or point
\* whose value is the product of the numbers f and g
IsExactProduct(s, f, g) ==
    /\ to_decimal(Str(s)).k = "fin"
    /\ Scaled(to_decimal(Str(s)), Min(to_decimal(Str(s)).exp, f.exp + g.exp))
         = Scaled(DecMul(f, g), Min(to_decimal(Str(s)).exp, f.exp + g.exp))
    /\ IndexOf(s, "e") = 0 /\ IndexOf(s, "E") = 0
    /\ (IndexOf(s, ".") # 0 => s[Len(s)] \notin {"0", "."})

\* C4: compute_amount returns "" when freight or settleTons is absent, blank
\* or not a number (NaN and Infinity included), and else the exact product
\* without trailing zeros or decimal point; it always returns a string.
C4_ComputeAmountContract ==
    op = "compute_amount" =>
        /\ ret.err = ""
        /\ ret.v.t = "str"
        /\ IF IsNumber(row["freight"]) /\ IsNumber(row["settleTons"])
           THEN IsExactProduct(ret.v.s, to_decimal(Get(row["freight"])),
                               to_decimal(Get(row["settleTons"])))
           ELSE ret.v = EmptyStr

\* the value of an amount cell in units of 10^-6, zero when it does not parse
AmountUnits(v) == IF to_decimal(Get(v)).k = "fin" THEN Scaled(to_decimal(Get(v)), 0 - 6)
                  ELSE 0

RECURSIVE SumUnits(_)
SumUnits(items) == IF items = <<>> THEN 0
                   ELSE AmountUnits(Head(items).f["amount"]) + SumUnits(Tail(items))

AllAmountsFinite(items) ==
    \A i \in 1..Len(items) : to_decimal(Get(items[i].f["amount"])).k \in {"fin", "none"}

\* the name summarize_table is to give table t
ExpectedName(t) ==
    IF t.rows.items # <<>>
    THEN Str(t.startDate.s \o <<"-">> \o t.rows.items[Len(t.rows.items)].f["loadDate"].s)
    ELSE Str(t.startDate.s \o <<"-">>)

\* C5: summarize_table(cfg, t) returns (t', total): total is the sum of the
\* parseable amounts of the rows of normalize_table(cfg, t), and t'.name is
\* t'.startDate, "-", and the last row's loadDate (nothing when no rows).
C5_SummarizeContract ==
    op = "summarize_table" =>
        \A nt \in {normalize_table(cfg, prev, clock, 0)} :
            nt.err = "" =>
                /\ ret.err = ""
                /\ AllAmountsFinite(nt.t.rows.items) =>
                      /\ ret.total.k = "fin"
                      /\ Scaled(ret.total, 0 - 6) = SumUnits(nt.t.rows.items)
                /\ tbl.name = ExpectedName(tbl)

-----------------------------------------------------------------------------
(* load_config on one stored document                                      *)

InitConfig ==
    /\ stored \in StoredInputs
    /\ clock = Clock0 /\ nextId = 0 /\ cfg = NoConfig
    /\ tbl = NoTable /\ prev = NoTable /\ row = EmptyRow /\ arg = NoArg /\ ret = NoRet
    /\ op = "none" /\ hist = <<>>
    /\ fs = <<>> /\ dirs = {} /\ pc = "idle" /\ wr = NoWrite /\ loaded = NoLoad
    /\ lost = NoWrite /\ csv = <<>> /\ app = NoApp /\ seen = NoSeen

\* load_config reads the document and fills it in
LoadConfig ==
    /\ hist = <<>>
    /\ cfg' = load_config_doc(stored, clock)
    /\ op' = "load_config"
    /\ hist' = <<"load_config">>
    /\ UNCHANGED <<clock, nextId, tbl, prev, row, arg, ret, fs, dirs, pc, wr, loaded, lost,
                   stored, csv, app, seen>>

NextConfig == LoadConfig

SpecConfig == InitConfig /\ [][NextConfig]_vars

\* the value v has the type of the default d
SameType(v, d) == v.t = d.t

\* C11: load_config returns a config in which every default key is present
\* with a value of its default's type: a key missing or wrong-typed in the
\* stored document has its default, every other stored key, unknown ones
\* included, keeps its stored value.
C11_LoadConfigDefaults ==
    op = "load_config" =>
        \A base \in {default_config(clock)} :
            /\ \A k \in {"recentLimit", "defaultVehicle", "autosaveMs", "initialRows",
                          "defaultModel", "updatedAt"} :
                  /\ SameType(cfg[k], base[k])
                  /\ cfg[k] = IF stored.isdict /\ SameType(stored[k], base[k])
                              THEN stored[k] ELSE base[k]
            /\ \A k \in {"recentTableIds", "loadPlaces", "unloadPlaces"} :
                  cfg[k] = IF stored.isdict /\ stored[k].islist
                           THEN stored[k].items ELSE base[k]
            /\ stored.isdict => cfg.extra = stored.extra

-----------------------------------------------------------------------------
(* export_csv_bytes on one table                                           *)

InitCsv ==
    /\ tbl \in CsvTables
    /\ clock = Clock0 /\ nextId = 0 /\ cfg = Config0
    /\ prev = NoTable /\ row = EmptyRow /\ arg = NoArg /\ ret = NoRet
    /\ op = "none" /\ hist = <<>>
    /\ fs = <<>> /\ dirs = {} /\ pc = "idle" /\ wr = NoWrite /\ loaded = NoLoad
    /\ lost = NoWrite /\ stored = NoStored /\ csv = <<>> /\ app = NoApp /\ seen = NoSeen

ExportCsv ==
    /\ hist = <<>>
    /\ csv' = export_csv_bytes(tbl)
    /\ op' = "export_csv_bytes"
    /\ hist' = <<"export_csv_bytes">>
    /\ UNCHANGED <<clock, nextId, cfg, tbl, prev, row, arg, ret, fs, dirs, pc, wr, loaded,
                   lost, stored, app, seen>>

NextCsv == ExportCsv

SpecCsv == InitCsv /\ [][NextCsv]_vars

\* A reader of CSV text.  A character is outside quotes when the number of
\* quote characters before it is even; outside quotes a comma ends a field
\* and a line feed, a carriage return or the two together end a record; a
\* field that starts with a quote stands for the text between its outer
\* quotes, two quotes read as one.
Outside(cs, i) == Cardinality({j \in 1..(i - 1) : cs[j] = "\""}) % 2 = 0

\* the positions in a..b of the characters in marks that are outside quotes
Marks(cs, a, b, marks) == {i \in a..b : cs[i] \in marks /\ Outside(cs, i)}

\* the k-th smallest number of the set S
Kth(S, k) == CHOOSE i \in S : Cardinality({j \in S : j < i}) = k - 1

\* the pieces of cs[a..b] between the positions in S: [from, to] each
Pieces(S, a, b) ==
    [k \in 1..(Cardinality(S) + 1) |->
        [from |-> IF k = 1 THEN a ELSE Kth(S, k - 1) + 1,
         to |-> IF k = Cardinality(S) + 1 THEN b ELSE Kth(S, k) - 1]]

RECURSIVE Undouble(_)
Undouble(cs) ==
    IF cs = <<>> THEN <<>>
    ELSE IF Len(cs) >= 2 /\ cs[1] = "\"" /\ cs[2] = "\""
    THEN <<"\"">> \o Undouble(SubSeq(cs, 3, Len(cs)))
    ELSE <<Head(cs)>> \o Undouble(Tail(cs))

\* the text a field stands for
FieldText(cs) == IF Len(cs) >= 2 /\ cs[1] = "\"" /\ cs[Len(cs)] = "\""
                 THEN Undouble(SubSeq(cs, 2, Len(cs) - 1))
                 ELSE cs

\* the fields of the record cs[a..b]
RecordFields(cs, a, b) ==
    Bind(Pieces(Marks(cs, a, b, {","}), a, b), LAMBDA ps :
        [k \in 1..Len(ps) |-> FieldText(SubSeq(cs, ps[k].from, ps[k].to))])

\* the records of a CSV text: the pieces between line ends, but for the
\* empty piece between a carriage return and the line feed after it, and for
\* the empty piece after the last line end
CsvRecords(cs) ==
    Bind(Pieces(Marks(cs, 1, Len(cs), {"\n", "\r"}), 1, Len(cs)), LAMBDA ps :
        Bind(SelectSeq(ps, LAMBDA p :
                 ~(p.from > p.to /\ (p.from > Len(cs)
                                     \/ (p.from > 1 /\ cs[p.from - 1] = "\r"
                                         /\ cs[p.from] = "\n")))), LAMBDA kept :
            [k \in 1..Len(kept) |-> RecordFields(cs, kept[k].from, kept[k].to)]))

\* the rows of a table: the entries of its rows list that are objects
DictItems(t) == SelectSeq(t.rows.items, LAMBDA it : it.isdict)

\* C15: export_csv_bytes returns the UTF-8 byte-order mark, a header record
\* with the eleven labels in the fixed order, then one record for each row
\* in row order, holding the row's eleven values in column order, a missing
\* key as an empty cell.
C15_CsvExport ==
    op = "export_csv_bytes" =>
        /\ Len(csv) >= 3 /\ SubSeq(csv, 1, 3) = <<"EF", "BB", "BF">>
        /\ \A recs \in {CsvRecords(SubSeq(csv, 4, Len(csv)))} :
           \A rows \in {DictItems(tbl)} :
              /\ Len(recs) = 1 + Len(rows)
              /\ recs[1] = [i \in 1..11 |-> HeaderLabel(FIXED_HEADERS[i])]
              /\ \A j \in 1..Len(rows) :
                    recs[j + 1] = [i \in 1..11 |-> CsvText(rows[j].f[FIXED_HEADERS[i]])]

-----------------------------------------------------------------------------
(* touch_recent on one config                                              *)

InitRecent ==
    /\ cfg \in {[Config0 EXCEPT !.recentLimit = l, !.recentTableIds = r] :
                   l \in RecentLimitInputs, r \in RecentInputs}
    /\ clock = Clock0 /\ nextId = 0
    /\ tbl = NoTable /\ prev = NoTable /\ row = EmptyRow /\ arg = NoArg /\ ret = NoRet
    /\ op = "none" /\ hist = <<>>
    /\ fs = <<>> /\ dirs = {} /\ pc = "idle" /\ wr = NoWrite /\ loaded = NoLoad /\ lost = NoWrite
    /\ stored = NoStored /\ csv = <<>> /\ app = NoApp /\ seen = NoSeen

\* a caller (create_and_open, open_table, confirm_delete) touches table x
TouchRecent(x) ==
    /\ Len(hist) < MaxCalls /\ ret.err = ""
    /\ \E r \in {touch_recent(cfg, x)} :
           /\ cfg' = r.c
           /\ ret' = [NoRet EXCEPT !.err = r.err]
    /\ arg' = [NoArg EXCEPT !.id = x, !.recents = cfg.recentTableIds]
    /\ op' = "touch_recent"
    /\ hist' = Append(hist, "touch_recent")
    /\ UNCHANGED <<clock, nextId, tbl, prev, row, fs, dirs, pc, wr, loaded, lost, stored, csv, app, seen>>

NextRecent == \E x \in TableIds : TouchRecent(x)

SpecRecent == InitRecent /\ [][NextRecent]_vars

-----------------------------------------------------------------------------
(* The store: saves step by step, crashes, loads                           *)

InitStore ==
    /\ clock = Clock0 /\ nextId = 0 /\ cfg = Config0
    /\ tbl = NoTable /\ prev = NoTable /\ row = EmptyRow /\ arg = NoArg /\ ret = NoRet
    /\ op = "none" /\ hist = <<>>
    /\ fs = <<>> /\ dirs = {} /\ pc = "off" /\ wr = NoWrite /\ loaded = NoLoad /\ lost = NoWrite
    /\ stored = NoStored /\ csv = <<>> /\ app = NoApp /\ seen = NoSeen

\* the app starts: it makes its directories, loads the config and saves it
Start ==
    /\ pc \in {"off", "crashed"}
    /\ dirs' = dirs \cup {"base", "tables", "exports"}
    /\ \E c \in {load_config(fs, clock)} :
           /\ cfg' = c
           /\ wr' = save_config(fs, c, clock)
    /\ pc' = "mkdir"
    /\ op' = "start"
    /\ ret' = NoRet
    /\ UNCHANGED <<clock, nextId, tbl, prev, row, arg, hist, fs, loaded, lost, stored, csv, app, seen>>

\* save_table(tables_dir, t), up to the first step of _write_json_atomic
SaveTable(t) ==
    /\ pc = "idle" /\ Len(hist) < MaxOps
    /\ \E r \in {save_table(fs, t, clock)} :
           /\ tbl' = r.table
           /\ ret' = [NoRet EXCEPT !.err = r.err]
           /\ wr' = r.w
           /\ pc' = IF r.err = "" THEN "mkdir" ELSE "idle"
    /\ prev' = t
    /\ op' = "save_table"
    /\ hist' = Append(hist, "save_table")
    /\ UNCHANGED <<clock, nextId, cfg, row, arg, fs, dirs, loaded, lost, stored, csv, app, seen>>

\* a table is touched and the config saved (create_and_open, open_table),
\* up to the first step of _write_json_atomic
SaveConfig(x) ==
    /\ pc = "idle" /\ Len(hist) < MaxOps
    /\ \E r \in {touch_recent(cfg, x)} :
           /\ cfg' = r.c
           /\ wr' = save_config(fs, r.c, clock)
    /\ pc' = "mkdir"
    /\ ret' = NoRet
    /\ op' = "save_config"
    /\ hist' = Append(hist, "save_config")
    /\ UNCHANGED <<clock, nextId, tbl, prev, row, arg, fs, dirs, loaded, lost, stored, csv, app, seen>>

\* path.parent.mkdir(parents=True, exist_ok=True)
Mkdir ==
    /\ pc = "mkdir"
    /\ dirs' = dirs \cup {"base", wr.path.dir}
    /\ pc' = "open"
    /\ UNCHANGED <<clock, nextId, cfg, tbl, prev, row, arg, ret, op, hist, fs, wr, loaded, lost, stored, csv, app, seen>>

\* write_text opens its file: the file is there and empty
OpenTmp ==
    /\ pc = "open"
    /\ fs' = Put(fs, WriteTarget(wr), EmptyText)
    /\ pc' = "write"
    /\ UNCHANGED <<clock, nextId, cfg, tbl, prev, row, arg, ret, op, hist, dirs, wr, loaded, lost, stored, csv, app, seen>>

\* write_text writes the next piece of the text
WriteChunk ==
    /\ pc = "write"
    /\ fs[WriteTarget(wr)].len < wr.text.len
    /\ fs' = Put(fs, WriteTarget(wr), Prefix(wr.text, fs[WriteTarget(wr)].len + 1))
    /\ UNCHANGED <<clock, nextId, cfg, tbl, prev, row, arg, ret, op, hist, dirs, pc, wr, loaded, lost, stored, csv, app, seen>>

\* write_text is done; os.replace(tmp, path)
Replace ==
    /\ pc = "write"
    /\ fs[WriteTarget(wr)].len = wr.text.len
    /\ IF wr.tmp \in DOMAIN fs
       THEN /\ fs' = Put(Remove(fs, wr.tmp), wr.path, fs[wr.tmp])
            /\ ret' = ret
       ELSE /\ fs' = fs
            /\ ret' = [ret EXCEPT !.err = "FileNotFoundError"]
    /\ pc' = "idle"
    /\ UNCHANGED <<clock, nextId, cfg, tbl, prev, row, arg, op, hist, dirs, wr, loaded, lost, stored, csv, app, seen>>

\* the process dies inside _write_json_atomic
Crash ==
    /\ pc \in {"mkdir", "open", "write"} /\ Len(hist) < MaxOps
    /\ pc' = "crashed"
    /\ lost' = wr
    /\ wr' = NoWrite
    /\ op' = "crash"
    /\ hist' = Append(hist, "crash")
    /\ UNCHANGED <<clock, nextId, cfg, tbl, prev, row, arg, ret, fs, dirs, loaded,
                   stored, csv, app, seen>>

\* load_table_by_id(tables_dir, id)
LoadTable(id) ==
    /\ pc = "idle" /\ Len(hist) < MaxOps
    /\ loaded' = load_table_by_id(fs, id)
    /\ arg' = [NoArg EXCEPT !.id = id]
    /\ op' = "load_table_by_id"
    /\ hist' = Append(hist, "load_table_by_id")
    /\ UNCHANGED <<clock, nextId, cfg, tbl, prev, row, ret, fs, dirs, pc, wr, lost,
                   stored, csv, app, seen>>

\* delete_table(tables_dir, id)
DeleteTable(id) ==
    /\ pc = "idle" /\ Len(hist) < MaxOps
    /\ fs' = delete_table(fs, id)
    /\ arg' = [NoArg EXCEPT !.id = id]
    /\ op' = "delete_table"
    /\ hist' = Append(hist, "delete_table")
    /\ UNCHANGED <<clock, nextId, cfg, tbl, prev, row, ret, dirs, pc, wr, loaded, lost, stored, csv, app, seen>>

NextStore ==
    \/ Start
    \/ \E t \in StoreTables : SaveTable(t)
    \/ \E x \in StoreRecentIds : SaveConfig(x)
    \/ Mkdir
    \/ OpenTmp
    \/ WriteChunk
    \/ Replace
    \/ Crash
    \/ \E id \in LookupIds : LoadTable(id)
    \/ \E id \in LookupIds : DeleteTable(id)

SpecStore == InitStore /\ [][NextStore]_vars

-----------------------------------------------------------------------------
(* Claims on touch_recent                                                  *)

\* C6: for a config with an integer recentLimit, zero and negative included,
\* the list touch_recent returns is at most max(1, recentLimit) long.
C6_RecentWithinLimit ==
    (op = "touch_recent" /\ ret.err = "" /\ cfg.recentLimit.t = "int")
        => Len(cfg.recentTableIds) <= Max(1, cfg.recentLimit.n)

RECURSIVE IsSubseq(_, _)
IsSubseq(a, b) == IF a = <<>> THEN TRUE
                  ELSE IF b = <<>> THEN FALSE
                  ELSE IF Head(a) = Head(b) THEN IsSubseq(Tail(a), Tail(b))
                  ELSE IsSubseq(a, Tail(b))

NoDuplicates(xs) == \A i, j \in 1..Len(xs) : xs[i] = xs[j] => i = j

\* C7: in the config touch_recent(cfg, x) returns, x is first in the recent
\* list and occurs once, the other ids that remain keep their order; a list
\* without duplicates stays without duplicates.
C7_TouchMovesToFront ==
    (op = "touch_recent" /\ ret.err = "") =>
        /\ cfg.recentTableIds # <<>>
        /\ cfg.recentTableIds[1] = arg.id
        /\ \A i \in 2..Len(cfg.recentTableIds) : cfg.recentTableIds[i] # arg.id
        /\ IsSubseq(Tail(cfg.recentTableIds), arg.recents)
        /\ NoDuplicates(arg.recents) => NoDuplicates(cfg.recentTableIds)

\* C7's case: an id that was in the list, not first, is touched again
C7_Witness ==
    /\ op = "touch_recent"
    /\ Len(arg.recents) >= 2 /\ arg.recents[2] = arg.id /\ arg.recents[1] # arg.id
    /\ Len(cfg.recentTableIds) >= 2
    /\ cfg.recentTableIds[1] = arg.id /\ cfg.recentTableIds[2] = arg.recents[1]

-----------------------------------------------------------------------------
(* Claims on the store                                                     *)

\* C8: after save_table(dir, t) has returned for a table save_table accepts,
\* an id with blanks around it included, load_table_by_id(dir, t.id) returns
\* a table with t's id and as many rows as t.
C8_SaveLoadRoundTrip ==
    (op = "load_table_by_id" /\ LastOp(2) = "save_table" /\ ret.err = ""
        /\ arg.id = prev.id)
        => /\ loaded.found
           /\ loaded.doc.kind = "table"
           /\ loaded.doc.t.id = prev.id
           /\ Len(loaded.doc.t.rows.items) = Len(prev.rows.items)

\* an id that is missing, null, empty or made of blanks only
IsBlankId(v) == \/ v.t \in {"absent", "none"}
                \/ v.t = "str" /\ \A i \in 1..Len(v.s) : v.s[i] = " "

\* C9: save_table on a table whose id is missing, empty or whitespace-only
\* raises the validation error, starts no write, leaves every file and
\* directory as it was, and leaves the table it was given as it was.
C9_BlankIdSaveFails ==
    [][(op' = "save_table" /\ hist' # hist /\ IsBlankId(prev'.id))
          => /\ ret'.err = "ValueError"
             /\ pc' = "idle" /\ wr' = NoWrite
             /\ fs' = fs /\ dirs' = dirs
             /\ tbl' = prev']_vars

\* C9's case: a table whose id is one blank was refused, files being there
C9_Witness ==
    /\ op = "save_table" /\ ret.err = "ValueError"
    /\ prev.id = Str(<<" ">>)
    /\ TablePath(<<"a">>) \in DOMAIN fs

IsTmp(path) == path.name # <<>> /\ path.name[Len(path.name)] = ".tmp"

IsComplete(text) == text.doc.kind # "none" /\ text.len = JsonLen(text.doc)

\* C10: whatever the point at which the process dies inside save_table or
\* save_config, no destination file is ever partial; after the crash the
\* destination holds the complete previous document or the complete new one
\* (or is missing when there was none), and the next load of it returns the
\* previous or the new value (or nothing, or the default config).
C10_AtomicPersistence ==
    /\ \A p \in DOMAIN fs : ~IsTmp(p) => IsComplete(fs[p])
    /\ pc = "crashed" =>
          IF lost.path \in DOMAIN fs
          THEN \/ fs[lost.path] = lost.text
               \/ lost.existed /\ fs[lost.path] = lost.old
          ELSE ~lost.existed
    /\ (op = "load_table_by_id" /\ LastOp(2) = "crash"
           /\ lost.path = TablePath(PyStr(arg.id))) =>
          IF loaded.found
          THEN \/ loaded.doc = lost.text.doc
               \/ lost.existed /\ loaded.doc = lost.old.doc
          ELSE ~lost.existed
    /\ (op = "start" /\ LastOp(1) = "crash" /\ lost.path = ConfigPath) =>
          \/ cfg = lost.text.doc.c
          \/ lost.existed /\ cfg = lost.old.doc.c
          \/ ~lost.existed /\ cfg = default_config(clock)

\* C10's case: the process died with the temporary file half written while
\* an older document was in place, and the table was loaded afterwards
C10_Witness ==
    /\ op = "load_table_by_id" /\ LastOp(2) = "crash"
    /\ lost.path = TablePath(PyStr(arg.id))
    /\ lost.existed /\ lost.old # lost.text
    /\ lost.tmp \in DOMAIN fs
    /\ fs[lost.tmp].len > 0 /\ fs[lost.tmp].len < lost.text.len
    /\ loaded.found /\ loaded.doc = lost.old.doc

-----------------------------------------------------------------------------
(* The app (main.py).  The app object is app: the screen shown, _dirty,     *)
(* _autosave_ev (0 for None, else the id of a Clock event), the events the  *)
(* Clock still has to fire, and the confirmation popup that is open with    *)
(* the table id its callbacks captured.  A handler runs on the state        *)
(* [clk, cfg, tbl, fs, app, nextId] and leaves err (the exception that      *)
(* ended it), wrote (the files it wrote) and marks (its calls of            *)
(* _dirty_mark); what it assigned before an exception stays assigned.       *)
(* _write_json_atomic runs to its end here: the file system is taken at the *)
(* moments between handlers.                                                *)

World(clk, c, t, files, a, idc) ==
    [clk |-> clk, cfg |-> c, tbl |-> t, fs |-> files, app |-> a, nextId |-> idc,
     err |-> "", wrote |-> {}, marks |-> 0]

\* the handler ends here with the exception e
Fail(w, e) == [w EXCEPT !.err = e]

\* the next statement of a handler: skipped once an exception is on its way
Then(w, F(_)) == Bind(w, LAMBDA x : IF x.err # "" THEN x ELSE F(x))

\* _write_json_atomic(path, data), run to its end
Written(w, wri) == [w EXCEPT !.fs = Put(@, wri.path, wri.text),
                             !.wrote = @ \cup {wri.path}]

\* storage.save_config(self.base_dir, self.cfg)
ConfigSaved(w) ==
    Bind(save_config(w.fs, w.cfg, w.clk), LAMBDA wri : Written(w, wri))

\* storage.save_table(self.tables_dir, self.current_table)
TableSaved(w) ==
    Bind(save_table(w.fs, w.tbl, w.clk), LAMBDA r :
        IF r.err # "" THEN Fail(w, r.err)
        ELSE Bind([w EXCEPT !.tbl = r.table], LAMBDA w1 : Written(w1, r.w)))

\* some entry of the rows list is a dict without an id: normalize_table keeps
\* the uuid it draws for it
LacksId(t) == t.rows.islist /\ \E i \in 1..Len(t.rows.items) :
                 t.rows.items[i].isdict /\ t.rows.items[i].f["id"].t = "absent"

\* the ids uuid4 has handed out once normalize_table(t) returned n
IdsAfter(t, n, idc) == IF LacksId(t) THEN n.nextId ELSE idc

\* self.current_table = storage.normalize_table(self.cfg, self.current_table)
Normalized(w) ==
    Bind(normalize_table(w.cfg, w.tbl, w.clk, w.nextId), LAMBDA n :
        IF n.err # "" THEN Fail(w, n.err)
        ELSE [w EXCEPT !.tbl = n.t, !.nextId = IdsAfter(w.tbl, n, w.nextId)])

\* _cancel_autosave, on the app object
UnscheduleKeepsEvent(a) == [a EXCEPT !.autosave_ev = 0]

Unschedule(a) == [a EXCEPT !.events = @ \ {a.autosave_ev}, !.autosave_ev = 0]

cancel_autosave(w) == [w EXCEPT !.app = Unschedule(@)]

\* the event Clock.schedule_once returns: one that is neither pending nor
\* still referenced
NewEvent(a) ==
    CHOOSE e \in 1..(Cardinality(a.events) + 2) :
        /\ e \notin a.events \cup {a.autosave_ev}
        /\ \A j \in 1..(e - 1) : j \in a.events \cup {a.autosave_ev}

\* _schedule_autosave
schedule_autosave(w) ==
    Bind(NewEvent(w.app), LAMBDA e :
    Bind(cancel_autosave(w), LAMBDA w1 :
    Bind(PyInt(Or(Get(w1.cfg.autosaveMs), IntV(600))), LAMBDA ms :
        IF ms.err # "" THEN Fail(w1, ms.err)
        ELSE [w1 EXCEPT !.app.events = @ \cup {e}, !.app.autosave_ev = e])))

\* _dirty_mark
dirty_mark(w) ==
    Bind([w EXCEPT !.app.dirty = TRUE, !.marks = @ + 1], LAMBDA w1 :
        schedule_autosave(w1))

\* the ids _list_tables_meta lists: t.get("id") or p.stem of every *.json
\* file of the tables directory that holds a JSON object
IsTableFile(files, p) ==
    /\ p.dir = "tables" /\ Len(p.name) >= 1 /\ p.name[Len(p.name)] = ".json"
    /\ read_json(files, p).found

Stem(p) == SubSeq(p.name, 1, Len(p.name) - 1)

ListedIds(files) ==
    {Bind(read_json(files, p).doc.t, LAMBDA t :
        IF Truthy(t.id) THEN t.id ELSE Str(Stem(p))) :
            p \in {q \in DOMAIN files : IsTableFile(files, q)}}

\* [x for x in xs if x in ids] and [x for x in xs if x != tid]
RECURSIVE Among(_, _)
Among(xs, ids) ==
    IF xs = <<>> THEN <<>>
    ELSE (IF xs[1] \in ids THEN <<xs[1]>> ELSE <<>>) \o Among(Tail(xs), ids)

\* refresh_lists: the recent ids of no listed table are dropped and the
\* config is saved if any was
refresh_lists(w) ==
    Bind(Among(w.cfg.recentTableIds, ListedIds(w.fs)), LAMBDA still :
        IF still # w.cfg.recentTableIds
        THEN ConfigSaved([w EXCEPT !.cfg.recentTableIds = still])
        ELSE w)

\* go_home, the timer left alone
GoHomeKeepsTimer(w) ==
    Bind([w EXCEPT !.app.screen = "home"], LAMBDA w1 : refresh_lists(w1))

\* go_home
go_home(w) ==
    Bind([cancel_autosave(w) EXCEPT !.app.screen = "home"], LAMBDA w1 :
        refresh_lists(w1))

\* open_table(table_id)
open_table(w, table_id) ==
    Bind(load_table_by_id(w.fs, table_id), LAMBDA ld :
        IF ~ld.found THEN refresh_lists(w)
        ELSE Bind(normalize_table(w.cfg, ld.doc.t, w.clk, w.nextId), LAMBDA n :
             IF n.err # "" THEN Fail(w, n.err)
             ELSE Bind([w EXCEPT !.tbl = n.t,
                                 !.nextId = IdsAfter(ld.doc.t, n, w.nextId)], LAMBDA w1 :
                  Bind(touch_recent(w1.cfg, table_id), LAMBDA tr :
                     IF tr.err # "" THEN Fail(w1, tr.err)
                     ELSE Bind(ConfigSaved([w1 EXCEPT !.cfg = tr.c]), LAMBDA w2 :
                            [cancel_autosave([w2 EXCEPT !.app.dirty = FALSE])
                                EXCEPT !.app.screen = "editor"])))))

\* create_and_open(start_date, rows)
create_and_open(w, start_date, initial_rows) ==
    Bind(create_table(w.cfg, start_date, initial_rows, w.clk, w.nextId), LAMBDA ct :
        IF ct.err # "" THEN Fail([w EXCEPT !.nextId = ct.nextId], ct.err)
        ELSE Bind(save_table(w.fs, ct.t, w.clk), LAMBDA sv :
             IF sv.err # "" THEN Fail([w EXCEPT !.nextId = ct.nextId], sv.err)
             ELSE Bind(Written([w EXCEPT !.nextId = ct.nextId], sv.w), LAMBDA w1 :
                  Bind(touch_recent(w1.cfg, ct.t.id), LAMBDA tr :
                     IF tr.err # "" THEN Fail(w1, tr.err)
                     ELSE Bind(ConfigSaved([w1 EXCEPT !.cfg = tr.c]), LAMBDA w2 :
                            open_table(w2, ct.t.id))))))

\* the rows list a handler works on: self.current_table.get("rows") or []
RowsOrEmpty(t) == IF t.rows.islist THEN t.rows.items ELSE <<>>

\* _set_cell(row_idx, key, value)
set_cell(w, row_idx, key, value) ==
    IF w.tbl = NoTable \/ ~w.tbl.rows.islist
          \/ row_idx < 0 \/ row_idx >= Len(w.tbl.rows.items)
          \/ ~w.tbl.rows.items[row_idx + 1].isdict
    THEN w
    ELSE Bind([w.tbl.rows.items[row_idx + 1].f EXCEPT ![key] = value], LAMBDA r :
         Bind(IF key \in {"freight", "settleTons"} THEN compute_amount(r)
              ELSE [err |-> "", v |-> r["amount"]], LAMBDA am :
         Bind([w EXCEPT !.tbl.rows.items[row_idx + 1] =
                           DictItem([r EXCEPT !["amount"] =
                                        IF am.err = "" THEN am.v ELSE @])], LAMBDA w1 :
            IF am.err # "" THEN Fail(w1, am.err) ELSE dirty_mark(w1))))

\* the date set_start_date is given, today standing in for one that does not
\* parse
StartDateGivenOrToday(text) ==
    Bind(parse_iso_date(Str(Strip(PyStr(Or(text, EmptyStr))))), LAMBDA d :
        IF d.ok THEN d ELSE [ok |-> TRUE, date |-> Clock0.date])

\* the date set_start_date is given: parse_iso_date((start_date or "").strip())
StartDateGiven(text) == parse_iso_date(Str(Strip(PyStr(Or(text, EmptyStr)))))

\* set_start_date(start_date)

set_start_date(w, text) ==
    IF w.tbl = NoTable THEN w
    ELSE Bind(StartDateGiven(text), LAMBDA d :
            IF ~d.ok THEN w
            ELSE Then(Normalized([w EXCEPT !.tbl.startDate = Str(isoformat(d.date))]),
                      LAMBDA w1 : dirty_mark(w1)))

\* the row add_row appends
AddedRow(c, idc) ==
    ensure_row_defaults(c, [k \in RowKeys |->
                               IF k = "id" THEN new_id("row_", idc) ELSE EmptyStr])

\* add_row
add_row(w) ==
    IF w.tbl = NoTable THEN w
    ELSE Then(Normalized([w EXCEPT
                  !.tbl.rows = List(RowsOrEmpty(w.tbl)
                                       \o <<DictItem(AddedRow(w.cfg, w.nextId))>>),
                  !.nextId = @ + 1]),
              LAMBDA w1 : dirty_mark(w1))

\* remove_last_row
remove_last_row(w) ==
    IF w.tbl = NoTable \/ RowsOrEmpty(w.tbl) = <<>> THEN w
    ELSE Then(Normalized([w EXCEPT
                  !.tbl.rows = List(SubSeq(w.tbl.rows.items, 1,
                                           Len(w.tbl.rows.items) - 1))]),
              LAMBDA w1 : dirty_mark(w1))

\* save_current
save_current(w) ==
    IF w.tbl = NoTable THEN w
    ELSE Then(Normalized(w), LAMBDA w1 :
         Then(TableSaved(w1), LAMBDA w2 : [w2 EXCEPT !.app.dirty = FALSE]))

\* _autosave
autosave(w) == IF ~w.app.dirty THEN w ELSE save_current(w)

\* summary
summary(w) ==
    IF w.tbl = NoTable THEN w
    ELSE Bind(summarize_table(w.cfg, w.tbl, w.clk, w.nextId), LAMBDA sm :
            IF sm.err # "" THEN Fail(w, sm.err)
            ELSE Then(TableSaved([w EXCEPT !.tbl = sm.t,
                                           !.nextId = IF LacksId(w.tbl) THEN sm.nextId ELSE @]),
                      LAMBDA w2 : [w2 EXCEPT !.app.dirty = FALSE]))

\* the start date save_and_next gives the next table: the day after the last
\* row's loadDate, else after startDate, else after today: [err, date]
NextStart(t, clk) ==
    Bind(RowsOrEmpty(t), LAMBDA rows :
    Bind(IF rows # <<>> /\ rows[Len(rows)].isdict
         THEN parse_iso_date(Get(rows[Len(rows)].f["loadDate"]))
         ELSE [ok |-> FALSE, date |-> NoDate], LAMBDA last :
    Bind(IF last.ok THEN last
         ELSE Bind(parse_iso_date(Get(t.startDate)), LAMBDA sd :
                 IF sd.ok THEN sd ELSE parse_iso_date(Str(today_iso(clk)))), LAMBDA last_date :
        DateAdd(last_date.date, 1))))

\* save_and_next
save_and_next(w) ==
    IF w.tbl = NoTable THEN w
    ELSE Then(save_current(w), LAMBDA w1 :
         Bind(NextStart(w1.tbl, w1.clk), LAMBDA nx :
         Bind(IF RowsOrEmpty(w1.tbl) # <<>>
              THEN [err |-> "", n |-> Len(w1.tbl.rows.items)]
              ELSE PyInt(Or(Get(w1.cfg.initialRows), IntV(31))), LAMBDA next_rows :
            IF nx.err # "" THEN Fail(w1, nx.err)
            ELSE IF next_rows.err # "" THEN Fail(w1, next_rows.err)
            ELSE create_and_open(w1, Str(isoformat(nx.date)), next_rows.n))))

\* [x for x in self.cfg.get("recentTableIds", []) if x != tid]
RecentsDropped(w, tid) ==
    [w EXCEPT !.cfg.recentTableIds = Others(@, tid)]

\* delete_current up to pop.open(): tid = str(self.current_table.get("id") or "")
delete_current(w) ==
    IF w.tbl = NoTable THEN w
    ELSE [w EXCEPT !.app.popup = "delete_current",
                   !.app.tid = Str(PyStr(Or(Get(w.tbl.id), EmptyStr)))]

\* _ok of delete_current
delete_current_ok(w) ==
    Bind([w EXCEPT !.app.popup = "", !.app.tid = None,
                   !.fs = delete_table(@, w.app.tid)], LAMBDA w1 :
    Bind([ConfigSaved(RecentsDropped(w1, w.app.tid)) EXCEPT !.tbl = NoTable], LAMBDA w2 :
        go_home(w2)))

\* confirm_delete(table_id, name) up to pop.open()
confirm_delete(w, table_id) ==
    [w EXCEPT !.app.popup = "confirm_delete", !.app.tid = table_id]

\* _ok of confirm_delete
confirm_delete_ok(w) ==
    Bind([w EXCEPT !.app.popup = "", !.app.tid = None,
                   !.fs = delete_table(@, w.app.tid)], LAMBDA w1 :
    Bind(touch_recent(w1.cfg, w.app.tid), LAMBDA tr :
        IF tr.err # "" THEN Fail(w1, tr.err)
        ELSE Bind(ConfigSaved(RecentsDropped([w1 EXCEPT !.cfg = tr.c], w.app.tid)),
                  LAMBDA w2 : refresh_lists(w2))))

\* _cancel of either popup
popup_cancel(w) == [w EXCEPT !.app.popup = "", !.app.tid = None]

-----------------------------------------------------------------------------
(* The app's run.  The home screen's list and buttons call open_table,      *)
(* confirm_delete and the create dialog; the editor screen's widgets call   *)
(* the other handlers; a confirmation popup is modal, so that while it is   *)
(* open only its two buttons and the Clock act.                             *)

\* how many handlers a behaviour of the app runs
MaxSteps == 4

\* how many table files the app is let create up to
MaxTables == 3

Chars2026_03_10 == <<"2", "0", "2", "6", "-", "0", "3", "-", "1", "0">>

Chars2026_02_30 == <<"2", "0", "2", "6", "-", "0", "2", "-", "3", "0">>

\* a table file as an earlier run of the app may have left it: one row
AppTable(id_chars, freight, settle) ==
    [NoTable EXCEPT
        !.id = Str(id_chars), !.name = Str(id_chars),
        !.startDate = Str(Chars2026_02_27),
        !.rows = List(<<DictItem([RowWith(freight, settle) EXCEPT
                                     !["id"] = Str(<<"r">> \o id_chars)])>>),
        !.meta = [isdict |-> TRUE, startDate |-> Str(Chars2026_02_27),
                  initialRows |-> IntV(1)]]

\* the config file build finds: one row for a new table
AppStoredConfig == [Config0 EXCEPT !.initialRows = IntV(1)]

\* the files build finds: config.json, and the tables a (freight Infinity,
\* settleTons 1) and b (freight 3, settleTons 2)
AppStoredFiles ==
    Put(Put(Put(<<>>, ConfigPath, json_dumps(ConfigDoc(AppStoredConfig))),
            TablePath(<<"a">>),
            json_dumps(TableDoc(AppTable(<<"a">>,
                                         Str(<<"I", "n", "f", "i", "n", "i", "t", "y">>),
                                         Str(<<"1">>))))),
        TablePath(<<"b">>),
        json_dumps(TableDoc(AppTable(<<"b">>, Str(<<"3">>), Str(<<"2">>)))))

\* what the user types into the start date field
StartDateTexts == {Str(Chars2026_03_10), EmptyStr, Str(<<"b", "a", "d">>),
                   Str(Chars2026_02_30)}

\* the cells the user edits and what they type
CellEdits == {[key |-> "settleTons", value |-> Str(<<"0">>)],
              [key |-> "freight", value |-> Str(<<"5">>)],
              [key |-> "loadPlace", value |-> Str(<<"x">>)]}

\* the table files there are
TableFiles(files) == {p \in DOMAIN files : p.dir = "tables"}

\* the file of the table that is open: the editor shows current_table
OpenFile(t, a) == IF a.screen = "editor" /\ t # NoTable
                  THEN {TablePath(TableFileId(t))} ELSE {}

\* the state the handlers run on
Now == World(clock, cfg, tbl, fs, app, nextId)

\* build: config loaded and saved back, the home screen shown
InitApp ==
    /\ clock = Clock0 /\ nextId = 0
    /\ \E c \in {load_config(AppStoredFiles, Clock0)} :
          /\ cfg = c
          /\ fs = ConfigSaved(World(Clock0, c, NoTable, AppStoredFiles, NoApp, 0)).fs
    /\ tbl = NoTable /\ prev = NoTable /\ row = EmptyRow
    /\ arg = NoArg /\ ret = NoRet /\ op = "build" /\ hist = <<>>
    /\ dirs = {"base", "tables", "exports"} /\ pc = "idle" /\ wr = NoWrite
    /\ loaded = NoLoad /\ lost = NoWrite
    /\ stored = NoStored /\ csv = <<>>
    /\ app = [NoApp EXCEPT !.screen = "home"] /\ seen = NoSeen

\* a handler ran from Now to w
Ran(name, a, w, gone) ==
    /\ seen.steps < MaxSteps
    /\ cfg' = w.cfg /\ tbl' = w.tbl /\ fs' = w.fs /\ app' = w.app
    /\ nextId' = w.nextId
    /\ ret' = [NoRet EXCEPT !.err = w.err] /\ op' = name /\ arg' = a
    /\ seen' = [steps |-> seen.steps + 1,
                closed |-> (seen.closed \cup OpenFile(tbl, app) \cup gone)
                               \ OpenFile(w.tbl, w.app),
                unsaved |-> IF w.wrote \cap TableFiles(w.fs) # {}
                                  \/ OpenFile(w.tbl, w.app) # OpenFile(tbl, app)
                            THEN 0 ELSE seen.unsaved + w.marks,
                batch |-> IF w.wrote \cap TableFiles(w.fs) # {}
                          THEN seen.unsaved ELSE 0,
                wrote |-> w.wrote, marks |-> w.marks]
    /\ UNCHANGED <<clock, prev, row, hist, dirs, pc, wr, loaded, lost, stored, csv>>

AtHome == app.screen = "home" /\ app.popup = ""

InEditor == app.screen = "editor" /\ app.popup = ""

OnOpenTable(id) ==
    /\ AtHome
    /\ \E w0 \in {Now} : \E w \in {open_table(w0, id)} :
          Ran("open_table", [NoArg EXCEPT !.id = id], w, {})

OnCreateAndOpen(start, n) ==
    /\ AtHome /\ Cardinality(TableFiles(fs)) < MaxTables
    /\ \E w0 \in {Now} : \E w \in {create_and_open(w0, start, n)} :
          Ran("create_and_open", [NoArg EXCEPT !.start_date = start, !.rows = n], w, {})

OnConfirmDelete(id) ==
    /\ AtHome
    /\ \E w0 \in {Now} : \E w \in {confirm_delete(w0, id)} :
          Ran("confirm_delete", [NoArg EXCEPT !.id = id], w, {})

OnPopupOk ==
    \/ /\ app.popup = "delete_current"
       /\ \E w0 \in {Now} : \E w \in {delete_current_ok(w0)} :
             Ran("delete_current_ok", [NoArg EXCEPT !.id = app.tid], w,
                 {TablePath(PyStr(app.tid))})
    \/ /\ app.popup = "confirm_delete"
       /\ \E w0 \in {Now} : \E w \in {confirm_delete_ok(w0)} :
             Ran("confirm_delete_ok", [NoArg EXCEPT !.id = app.tid], w,
                 {TablePath(PyStr(app.tid))})

OnPopupCancel ==
    /\ app.popup # ""
    /\ \E w0 \in {Now} : \E w \in {popup_cancel(w0)} : Ran("popup_cancel", NoArg, w, {})

OnGoHome ==
    /\ InEditor
    /\ \E w0 \in {Now} : \E w \in {go_home(w0)} : Ran("go_home", NoArg, w, {})

OnSetCell(i, e) ==
    /\ InEditor
    /\ \E w0 \in {Now} : \E w \in {set_cell(w0, i, e.key, e.value)} :
          Ran("_set_cell", [NoArg EXCEPT !.rows = i, !.id = Str(<<e.key>>),
                                         !.start_date = e.value], w, {})

OnSetStartDate(text) ==
    /\ InEditor
    /\ \E w0 \in {Now} : \E w \in {set_start_date(w0, text)} :
          Ran("set_start_date", [NoArg EXCEPT !.start_date = text], w, {})

OnAddRow ==
    /\ InEditor /\ Len(RowsOrEmpty(tbl)) < MaxRows
    /\ \E w0 \in {Now} : \E w \in {add_row(w0)} : Ran("add_row", NoArg, w, {})

OnRemoveLastRow ==
    /\ InEditor
    /\ \E w0 \in {Now} : \E w \in {remove_last_row(w0)} : Ran("remove_last_row", NoArg, w, {})

OnSaveCurrent ==
    /\ InEditor
    /\ \E w0 \in {Now} : \E w \in {save_current(w0)} : Ran("save_current", NoArg, w, {})

OnSaveAndNext ==
    /\ InEditor /\ Cardinality(TableFiles(fs)) < MaxTables
    /\ \E w0 \in {Now} : \E w \in {save_and_next(w0)} : Ran("save_and_next", NoArg, w, {})

OnSummary ==
    /\ InEditor
    /\ \E w0 \in {Now} : \E w \in {summary(w0)} : Ran("summary", NoArg, w, {})

OnDeleteCurrent ==
    /\ InEditor
    /\ \E w0 \in {Now} : \E w \in {delete_current(w0)} : Ran("delete_current", NoArg, w, {})

\* the Clock fires the event e: the lambda of _schedule_autosave runs
TimerFires(e) ==
    /\ e \in app.events
    /\ \E w0 \in {[Now EXCEPT !.app.events = @ \ {e}]} : \E w \in {autosave(w0)} :
          Ran("_autosave", NoArg, w, {})

NextApp ==
    \/ \E id \in ListedIds(fs) : OnOpenTable(id)
    \/ OnCreateAndOpen(Str(Chars2026_02_27), 1)
    \/ \E id \in ListedIds(fs) : OnConfirmDelete(id)
    \/ OnPopupOk
    \/ OnPopupCancel
    \/ OnGoHome
    \/ \E i \in 0..(Len(RowsOrEmpty(tbl)) - 1), e \in CellEdits : OnSetCell(i, e)
    \/ \E text \in StartDateTexts : OnSetStartDate(text)
    \/ OnAddRow
    \/ OnRemoveLastRow
    \/ OnSaveCurrent
    \/ OnSaveAndNext
    \/ OnSummary
    \/ OnDeleteCurrent
    \/ \E e \in app.events : TimerFires(e)

SpecApp == InitApp /\ [][NextApp]_vars


-----------------------------------------------------------------------------
(* Claims about the app                                                     *)

\* the handlers that edit the open table
EditOps == {"_set_cell", "add_row", "remove_last_row", "set_start_date"}

\* the document save_table leaves in the file of the table t
FileOf(t, clk) == json_dumps(TableDoc([t EXCEPT !.updatedAt = Str(now_iso(clk))]))

C13_NoStaleWrite ==
    /\ op = "_autosave" => /\ seen.wrote \cap seen.closed = {}
                           /\ seen.wrote \subseteq OpenFile(tbl, app)
    /\ app.events # {} => OpenFile(tbl, app) # {}

\* C13's case: the open table was edited and then deleted before its timer
\* fired: it is still dirty, its file is gone, and no timer is left
C13_Witness ==
    /\ op = "delete_current_ok" /\ app.dirty /\ app.events = {}
    /\ TablePath(PyStr(arg.id)) \in seen.closed
    /\ TablePath(PyStr(arg.id)) \notin DOMAIN fs

\* C14: set_start_date with a start date that does not parse (empty, no date
\* at all, an impossible date) is rejected: the current table, the dirty
\* flag, the pending timer and the reference to it are what they were, and
\* no file is written or changed.
C14_InvalidStartDateRejected ==
    [][(op' = "set_start_date" /\ seen'.steps # seen.steps
           /\ ~parse_iso_date(arg'.start_date).ok) =>
          /\ tbl' = tbl
          /\ app' = app
          /\ fs' = fs /\ seen'.wrote = {}
          /\ cfg' = cfg /\ ret'.err = ""]_vars

\* C14's case: the impossible date 2026-02-30 was given while the open table
\* was dirty with a timer pending
C14_Witness ==
    /\ op = "set_start_date" /\ arg.start_date = Str(Chars2026_02_30)
    /\ tbl # NoTable /\ app.screen = "editor"
    /\ app.dirty /\ app.events # {}

\* C16: date shift.  After set_start_date(d) with a valid date d on the open
\* table, the table's startDate and meta.startDate are d and row i is dated
\* d + i days.
C16_DateShift ==
    (op = "set_start_date" /\ ret.err = "" /\ tbl # NoTable
        /\ parse_iso_date(arg.start_date).ok) =>
       \A d \in {parse_iso_date(arg.start_date).date} :
          /\ tbl.startDate = Str(isoformat(d))
          /\ tbl.meta.startDate = Str(isoformat(d))
          /\ \A i \in 1..Len(tbl.rows.items) :
                LoadDateIs(tbl.rows.items[i], DaysLater(d, i - 1))

\* the rows entry it is a dict whose amount is compute_amount of it
AmountMatches(it) ==
    /\ it.isdict
    /\ \E am \in {compute_amount(it.f)} : am.err = "" /\ am.v = it.f["amount"]

AmountsMatch(t) ==
    t.rows.islist /\ \A i \in 1..Len(t.rows.items) : AmountMatches(t.rows.items[i])

\* C17: amount consistency.  Once a table is open, after every editor action
\* every row of the current table has amount = compute_amount(row), and so
\* has every row of a table file a handler wrote.
C17_AmountConsistent ==
    /\ tbl # NoTable => AmountsMatch(tbl)
    /\ \A p \in seen.wrote \cap TableFiles(fs) : AmountsMatch(fs[p].doc.t)

\* C18: no edit is silently lost.  Whenever the dirty flag is set and the
\* current table has not been deleted, an autosave timer is pending: the
\* edit is on its way to the file.
C18_DirtyHasTimer ==
    (app.dirty /\ tbl # NoTable /\ TablePath(TableFileId(tbl)) \in DOMAIN fs) =>
       app.events # {}

=============================================================================
